---- MODULE Spec2Model ----
(***************************************************************************)
(* A model of the ODS reader of spreadsheet-ods (src/src/io/read.rs).      *)
(*                                                                         *)
(* Strings that the code scans character by character (attribute values    *)
(* that are parsed) are sequences of one-character strings; names and text *)
(* content are TLA+ strings.  Option<T> is a sequence of length 0 (None)   *)
(* or 1 (Some).                                                            *)
(***************************************************************************)
EXTENDS Integers, Sequences, FiniteSets, TLC

VARIABLES
    pc,             \* which loop reads the next event: content, cell, styles, done, error
    book,           \* WorkBook.sheets: the sheets pushed so far
    sheet,          \* read_content: the Sheet under construction
    tcol,           \* read_content: counter for table-columns
    row,            \* read_content: cell position
    col,            \* read_content: cell position
    row_repeat,     \* read_content: pending repeat count of the row
    row_style,      \* read_content: pending row style
    col_range_from, \* read_content: start of the header columns
    row_range_from, \* read_content: start of the header rows
    cur,            \* read_table_cell: its locals while a cell is open
    err,            \* the error the read returned, if any
    last,           \* the event consumed last
    nev,            \* the number of events consumed
    wb,             \* round trip: the sheets pushed to the WorkBook that is written
    draft,          \* round trip: the Sheet being filled before it is pushed
    nops,           \* round trip: the number of mutations applied
    stream,         \* round trip: the events of content.xml not yet read
    inp,            \* a pure function's arguments
    out,            \* a pure function's result
    frames,         \* the style sub-parsers that are running, innermost first, with their locals
    fonts,          \* WorkBook: the FontDecls added
    styles,         \* WorkBook: the Styles added, by name
    formats,        \* WorkBook: the ValueFormats added, by name
    page_layouts,   \* WorkBook: the PageLayouts added, by name
    dump_xml,       \* read_ods_flags: the flag
    printed,        \* the number of events written to the standard output
    at_eof          \* the XML reader of the member being read is at its end

vars == <<pc, book, sheet, tcol, row, col, row_repeat, row_style, col_range_from,
          row_range_from, cur, err, last, nev, wb, draft, nops, stream, inp, out,
          frames, fonts, styles, formats, page_layouts, dump_xml, printed, at_eof>>

rtVars == <<wb, draft, nops, stream>>
styleVars == <<frames, fonts, styles, formats, page_layouts>>
ioVars == <<dump_xml, printed, at_eof>>

\* WorkBook::new() holds no style, and no style sub-parser runs
NoStyles ==
    /\ frames = <<>>
    /\ fonts = <<>>
    /\ styles = <<>>
    /\ formats = <<>>
    /\ page_layouts = <<>>

----------------------------------------------------------------------------
(* Bounds of the model.                                                    *)

MaxEvents == 4
MaxRepeat == 2
MaxOps == 3
MaxSheets == 2
MaxLen == 3
MaxStyleEvents == 7
MaxCursorEvents == 5

----------------------------------------------------------------------------
(* Option and Result.                                                      *)

None == <<>>
Some(x) == <<x>>
IsSome(o) == Len(o) = 1
Get(o) == o[1]

Ok(v) == [ok |-> TRUE, val |-> v]
Err(e) == [ok |-> FALSE, err |-> e]

Billion == 1000000000
HundredMillion == 100000000
HundredThousand == 100000
TenThousand == 10000

\* TLC's integers are 32-bit signed.  A u32 that the code may drive past 2^31
\* is kept as a pair <<hi, lo>> standing for hi * 10^9 + lo, lo < 10^9;
\* 2^32 is <<U32Hi, U32Lo>>.
U32Hi == 4
U32Lo == 294967296
W(n) == <<0, n>>
\* x * 10 + d, before any wrapping
WMul10Add(x, d) == <<x[1] * 10 + x[2] \div HundredMillion, (x[2] % HundredMillion) * 10 + d>>
\* the value does not fit a u32
WOverflows(x) == x[1] > U32Hi \/ (x[1] = U32Hi /\ x[2] >= U32Lo)
\* the value modulo 2^32, as a release build computes it
RECURSIVE WWrap(_)
WWrap(x) ==
    IF ~WOverflows(x) THEN x
    ELSE IF x[2] >= U32Lo THEN WWrap(<<x[1] - U32Hi, x[2] - U32Lo>>)
    ELSE WWrap(<<x[1] - U32Hi - 1, x[2] + (Billion - U32Lo)>>)

\* x + y and x * k for k <= 3600, on the pairs
WAdd(x, y) == <<x[1] + y[1] + (x[2] + y[2]) \div Billion, (x[2] + y[2]) % Billion>>
WScale(x, k) ==
    WAdd(<<x[1] * k + ((x[2] \div HundredThousand) * k) \div TenThousand,
           (((x[2] \div HundredThousand) * k) % TenThousand) * HundredThousand>>,
         <<0, (x[2] % HundredThousand) * k>>)

----------------------------------------------------------------------------
(* Characters, and the number parsers of the standard library.             *)

DigitChars == <<"0", "1", "2", "3", "4", "5", "6", "7", "8", "9">>
IsDigit(c) == \E i \in 1..10 : DigitChars[i] = c
DigitVal(c) == (CHOOSE i \in 1..10 : DigitChars[i] = c) - 1

RECURSIVE DecVal(_)
DecVal(s) == IF s = <<>> THEN 0
             ELSE 10 * DecVal(SubSeq(s, 1, Len(s) - 1)) + DigitVal(s[Len(s)])

AllDigits(s) == \A i \in 1..Len(s) : IsDigit(s[i])

\* the decimal digits as a wide number
RECURSIVE WDec(_)
WDec(s) == IF s = <<>> THEN W(0)
           ELSE WMul10Add(WDec(SubSeq(s, 1, Len(s) - 1)), DigitVal(s[Len(s)]))

\* a ucell is kept as its 32 bits read as the signed integer of TLC: a value
\* from 2^31 on reads as the value less 2^32, u32::MAX as -1
UcellBits(w) ==
    IF w[1] < 2 \/ (w[1] = 2 /\ w[2] <= 147483647) THEN w[1] * Billion + w[2]
    ELSE (w[1] - U32Hi) * Billion + (w[2] - U32Lo)

\* str::parse::<u32>: an optional "+", then one or more digits, of a value
\* below 2^32.  The counts among the inputs have at most ten digits.
ParseUcell(s) ==
    LET d == IF s # <<>> /\ s[1] = "+" THEN Tail(s) ELSE s
    IN  IF d # <<>> /\ AllDigits(d) /\ ~WOverflows(WDec(d))
        THEN Ok(UcellBits(WDec(d)))
        ELSE Err([kind |-> "ParseInt"])

RECURSIVE Pow10(_)
Pow10(n) == IF n = 0 THEN 1 ELSE 10 * Pow10(n - 1)

RECURSIVE Reduce(_, _)
\* a decimal m / 10^e without trailing zeros in the fraction
Reduce(m, e) == IF e > 0 /\ m % 10 = 0 THEN Reduce(m \div 10, e - 1) ELSE <<m, e>>

\* str::parse::<f64> on the decimal literals [sign] digits [. digits]
\* (exponents, inf and nan are left out of the inputs); the value is the
\* pair <<m, e>> standing for m / 10^e.
ParseF64(s) ==
    LET neg == s # <<>> /\ s[1] = "-"
        d == IF s # <<>> /\ s[1] \in {"+", "-"} THEN Tail(s) ELSE s
        dots == {i \in 1..Len(d) : d[i] = "."}
        ip == IF dots = {} THEN d ELSE SubSeq(d, 1, (CHOOSE i \in dots : TRUE) - 1)
        fp == IF dots = {} THEN <<>> ELSE SubSeq(d, (CHOOSE i \in dots : TRUE) + 1, Len(d))
        m == DecVal(ip \o fp)
    IN  IF Cardinality(dots) <= 1 /\ AllDigits(ip) /\ AllDigits(fp) /\ Len(ip) + Len(fp) > 0
        THEN Ok(Reduce(IF neg THEN 0 - m ELSE m, Len(fp)))
        ELSE Err([kind |-> "ParseFloat"])

----------------------------------------------------------------------------
(* Value: the tagged union of cell values.                                 *)

Empty == [t |-> "Empty"]
Text(s) == [t |-> "Text", s |-> s]
Number(f) == [t |-> "Number", f |-> f]
Percentage(f) == [t |-> "Percentage", f |-> f]
Currency(c, f) == [t |-> "Currency", c |-> c, f |-> f]
Boolean(b) == [t |-> "Boolean", b |-> b]
\* a NaiveDateTime: its calendar fields and the nanosecond of the second
DateTime(y, mo, d, h, mi, s, ns) ==
    [t |-> "DateTime", y |-> y, mo |-> mo, d |-> d, h |-> h, mi |-> mi, s |-> s, ns |-> ns]
\* a chrono Duration: whole seconds and nanoseconds
TimeDuration(secs, nanos) == [t |-> "TimeDuration", secs |-> secs, nanos |-> nanos]

\* OdsError::Ods(format!("{} has type <what>, but no value!", CellRef::simple(row, col)))
OdsNoValue(what, r, c) == [kind |-> "Ods", what |-> what, row |-> r, col |-> c]

----------------------------------------------------------------------------
(* chrono's parse_from_str, for the two format strings parse_value uses.   *)
(* A numeric item skips leading blanks and takes at most its width of      *)
(* digits (a signed year takes all digits that follow the sign); a literal *)
(* must match; input left over after the last item is an error; the fields *)
(* must then name a date and a time that exist.                            *)

\* the first position at or after i that holds no blank
RECURSIVE SkipBlank(_, _)
SkipBlank(s, i) == IF i <= Len(s) /\ s[i] = " " THEN SkipBlank(s, i + 1) ELSE i

\* the number of digits at s[i..], at most w
RECURSIVE DigitRun(_, _, _)
DigitRun(s, i, w) ==
    IF w > 0 /\ i <= Len(s) /\ IsDigit(s[i]) THEN 1 + DigitRun(s, i + 1, w - 1) ELSE 0

\* the digits taken: <<ok, value, next position>>
ScanTake(s, i, n) ==
    IF n = 0 THEN <<FALSE, 0, i>>
    ELSE <<TRUE, DecVal(SubSeq(s, i, i + n - 1)), i + n>>

ScanDigits(s, i, w) == ScanTake(s, i, DigitRun(s, i, w))

\* scan::number(s, 1, w) after trim_left
ScanNumber(s, i0, w) == ScanDigits(s, SkipBlank(s, i0), w)

\* a signed numeric item (the year): a sign lifts the width limit
ScanSignedAt(s, i, w) ==
    IF i <= Len(s) /\ s[i] = "-"
    THEN [ScanDigits(s, i + 1, Len(s)) EXCEPT ![2] = 0 - @]
    ELSE IF i <= Len(s) /\ s[i] = "+" THEN ScanDigits(s, i + 1, Len(s))
    ELSE ScanDigits(s, i, w)

ScanSigned(s, i0, w) == ScanSignedAt(s, SkipBlank(s, i0), w)

\* a literal character at position i
LitAt(s, i, ch) == i <= Len(s) /\ s[i] = ch

DaysInMonth(y, m) ==
    IF m = 2 THEN (IF (y % 4 = 0 /\ y % 100 # 0) \/ y % 400 = 0 THEN 29 ELSE 28)
    ELSE IF m \in {4, 6, 9, 11} THEN 30 ELSE 31
ValidDate(y, m, d) == m \in 1..12 /\ d >= 1 /\ d <= DaysInMonth(y, m)

ChronoErr == Err([kind |-> "Chrono"])

\* The parse walks the format's items over the input: ok, the position i of
\* the next unread character, and the numbers v read so far.
ScanInit == [ok |-> TRUE, i |-> 1, v |-> <<>>]

ScanTook(st, r) ==
    IF st.ok /\ r[1] THEN [ok |-> TRUE, i |-> r[3], v |-> Append(st.v, r[2])]
    ELSE [st EXCEPT !.ok = FALSE]

NumItem(s, st, w) == ScanTook(st, ScanNumber(s, st.i, w))
YearItem(s, st) == ScanTook(st, ScanSigned(s, st.i, 4))
LitItem(s, st, ch) ==
    IF st.ok /\ LitAt(s, st.i, ch) THEN [st EXCEPT !.i = st.i + 1]
    ELSE [st EXCEPT !.ok = FALSE]

\* scan::nanosecond after the ".": up to nine digits scaled to nanoseconds,
\* further digits skipped: <<ok, nanos, next>>
ScanNanoTake(s, i, n) ==
    IF n = 0 THEN <<FALSE, 0, i>>
    ELSE <<TRUE, DecVal(SubSeq(s, i, i + n - 1)) * Pow10(9 - n),
           i + n + DigitRun(s, i + n, Len(s))>>

ScanNanosecond(s, i) == ScanNanoTake(s, i, DigitRun(s, i, 9))

\* %.f: a "." and the fraction, or nothing
FracItem(s, st) ==
    IF st.ok /\ LitAt(s, st.i, ".") THEN ScanTook(st, ScanNanosecond(s, st.i + 1))
    ELSE [st EXCEPT !.v = Append(st.v, 0)]

\* the items %Y-%m-%d
ScanYmd(s) ==
    NumItem(s, LitItem(s, NumItem(s, LitItem(s, YearItem(s, ScanInit), "-"), 2), "-"), 2)

\* the items T%H:%M:%S%.f after the date
ScanHms(s, p) ==
    FracItem(s, NumItem(s, LitItem(s, NumItem(s, LitItem(s,
        NumItem(s, LitItem(s, p, "T"), 2), ":"), 2), ":"), 2))

\* the parsed fields name a date: all input read and the day exists
DateOf(s, p) ==
    IF p.ok /\ p.i = Len(s) + 1 /\ ValidDate(p.v[1], p.v[2], p.v[3])
    THEN Ok([y |-> p.v[1], mo |-> p.v[2], d |-> p.v[3]])
    ELSE ChronoErr

\* NaiveDate::parse_from_str(s, "%Y-%m-%d")
ParseNaiveDate(s) == DateOf(s, ScanYmd(s))

\* the parsed fields name a date and a time; second 60 is a leap second
DateTimeOf(s, p) ==
    IF /\ p.ok /\ p.i = Len(s) + 1 /\ ValidDate(p.v[1], p.v[2], p.v[3])
       /\ p.v[4] <= 23 /\ p.v[5] <= 59 /\ p.v[6] <= 60
    THEN Ok([y |-> p.v[1], mo |-> p.v[2], d |-> p.v[3], h |-> p.v[4], mi |-> p.v[5],
             s |-> IF p.v[6] = 60 THEN 59 ELSE p.v[6],
             ns |-> IF p.v[6] = 60 THEN p.v[7] + Billion ELSE p.v[7]])
    ELSE ChronoErr

\* NaiveDateTime::parse_from_str(s, "%Y-%m-%dT%H:%M:%S%.f")
ParseNaiveDateTime(s) == DateTimeOf(s, ScanHms(s, ScanYmd(s)))

----------------------------------------------------------------------------
(* parse_value and decode_value_type.                                      *)

\* the scan of a time-duration: one step of `for c in cell_value.drain(..)`.
\* The accumulators are u32 (nanos_digits u8); ovf records that one of them
\* left its range, where a debug build panics and a release build wraps.
DurAcc(x, c) == WWrap(WMul10Add(x, DigitVal(c)))
DurAccOvf(x, c) == WOverflows(WMul10Add(x, DigitVal(c)))

DurStep(st, c) ==
    IF IsDigit(c) THEN
        IF ~st.have_hour THEN
            [st EXCEPT !.hour = DurAcc(st.hour, c), !.ovf = st.ovf \/ DurAccOvf(st.hour, c)]
        ELSE IF ~st.have_min THEN
            [st EXCEPT !.min = DurAcc(st.min, c), !.ovf = st.ovf \/ DurAccOvf(st.min, c)]
        ELSE IF ~st.have_sec THEN
            [st EXCEPT !.sec = DurAcc(st.sec, c), !.ovf = st.ovf \/ DurAccOvf(st.sec, c)]
        ELSE
            [st EXCEPT !.nanos = DurAcc(st.nanos, c),
                       !.nanos_digits = (st.nanos_digits + 1) % 256,
                       !.ovf = st.ovf \/ DurAccOvf(st.nanos, c) \/ st.nanos_digits + 1 >= 256]
    ELSE IF c = "H" THEN [st EXCEPT !.have_hour = TRUE]
    ELSE IF c = "M" THEN [st EXCEPT !.have_min = TRUE]
    ELSE IF c = "." THEN [st EXCEPT !.have_sec = TRUE]
    ELSE st

RECURSIVE DurScan(_, _)
DurScan(st, s) == IF s = <<>> THEN st ELSE DurScan(DurStep(st, Head(s)), Tail(s))

\* while nanos_digits < 9 { nanos *= 10; nanos_digits += 1; }
RECURSIVE DurPad(_)
DurPad(st) ==
    IF st.nanos_digits < 9
    THEN DurPad([st EXCEPT !.nanos = WWrap(WMul10Add(st.nanos, 0)),
                           !.nanos_digits = st.nanos_digits + 1,
                           !.ovf = st.ovf \/ WOverflows(WMul10Add(st.nanos, 0))])
    ELSE st

DurInit == [hour |-> W(0), have_hour |-> FALSE, min |-> W(0), have_min |-> FALSE,
            sec |-> W(0), have_sec |-> FALSE, nanos |-> W(0), nanos_digits |-> 0,
            ovf |-> FALSE]

\* the fields after the scan and the padding
DurFields(s) == DurPad(DurScan(DurInit, s))

\* secs = hour * 3600 + min * 60 + sec is a u64 and cannot overflow;
\* std::time::Duration::new(secs, nanos) carries whole seconds out of nanos;
\* Duration::from_std succeeds for every value these u32 fields can give.
\* The seconds of the result are a pair <<hi, lo>> as above.
DurationOf(st) ==
    TimeDuration(WAdd(WAdd(WScale(st.hour, 3600), WScale(st.min, 60)),
                      WAdd(st.sec, <<0, st.nanos[1]>>)),
                 st.nanos[2])

parse_duration(s) == DurationOf(DurFields(s))

\* and_hms(0, 0, 0) on the date
AtMidnight(r) ==
    IF r.ok THEN Ok(DateTime(r.val.y, r.val.mo, r.val.d, 0, 0, 0, 0)) ELSE r

DateTimeValue(r) ==
    IF r.ok
    THEN Ok(DateTime(r.val.y, r.val.mo, r.val.d, r.val.h, r.val.mi, r.val.s, r.val.ns))
    ELSE r

\* a decoder that takes every date value for a full timestamp
parse_datetime_long(s) == DateTimeValue(ParseNaiveDateTime(s))

parse_datetime(s) ==
    IF Len(s) = 10 THEN AtMidnight(ParseNaiveDate(s))
    ELSE DateTimeValue(ParseNaiveDateTime(s))

\* a decoder that takes every boolean value for true
parse_boolean_any(s) == Boolean(TRUE)

parse_boolean(s) == Boolean(s = <<"t", "r", "u", "e">>)

\* a decoder that takes a missing value for an empty cell
parse_value_lenient(value_type, cell_value, cell_content, cell_currency, r, c) ==
    Ok(Empty)

\* One of the u32 accumulators of the time-duration scan leaves its range:
\* a build with overflow checks panics there, one without wraps.
parse_value_overflows(value_type, cell_value) ==
    /\ IsSome(value_type)
    /\ Get(value_type) = "TimeDuration"
    /\ IsSome(cell_value)
    /\ DurFields(Get(cell_value)).ovf
OverflowOutcomes(value_type, cell_value) ==
    IF parse_value_overflows(value_type, cell_value) THEN {"panic", "wrap"} ELSE {"ok"}

\* value_type is an Option of a ValueType name
parse_value(value_type, cell_value, cell_content, cell_currency, r, c) ==
    IF ~IsSome(value_type) THEN Ok(Empty)
    ELSE CASE Get(value_type) = "Empty" -> Ok(Empty)
           [] Get(value_type) = "Text" ->
                IF IsSome(cell_content) THEN Ok(Text(Get(cell_content))) ELSE Ok(Text(""))
           [] Get(value_type) = "Number" ->
                IF IsSome(cell_value)
                THEN LET f == ParseF64(Get(cell_value))
                     IN  IF f.ok THEN Ok(Number(f.val)) ELSE f
                ELSE Err(OdsNoValue("number", r, c))
           [] Get(value_type) = "DateTime" ->
                IF IsSome(cell_value) THEN parse_datetime(Get(cell_value))
                ELSE Err(OdsNoValue("datetime", r, c))
           [] Get(value_type) = "TimeDuration" ->
                IF IsSome(cell_value) THEN Ok(parse_duration(Get(cell_value)))
                ELSE Err(OdsNoValue("time-duration", r, c))
           [] Get(value_type) = "Boolean" ->
                IF IsSome(cell_value) THEN Ok(parse_boolean(Get(cell_value)))
                ELSE Err(OdsNoValue("boolean", r, c))
           [] Get(value_type) = "Currency" ->
                IF IsSome(cell_value)
                THEN LET f == ParseF64(Get(cell_value))
                     IN  IF ~f.ok THEN f
                         ELSE IF IsSome(cell_currency)
                              THEN Ok(Currency(Get(cell_currency), f.val))
                              ELSE Err(OdsNoValue("currency", r, c))
                ELSE Err(OdsNoValue("currency", r, c))
           [] Get(value_type) = "Percentage" ->
                IF IsSome(cell_value)
                THEN LET f == ParseF64(Get(cell_value))
                     IN  IF f.ok THEN Ok(Percentage(f.val)) ELSE f
                ELSE Err(OdsNoValue("percentage", r, c))

\* a decoder that takes an unknown token for a string
decode_value_type_string(token) ==
    CASE token = "float" -> Ok("Number")
      [] token = "percentage" -> Ok("Percentage")
      [] token = "date" -> Ok("DateTime")
      [] token = "time" -> Ok("TimeDuration")
      [] token = "boolean" -> Ok("Boolean")
      [] token = "currency" -> Ok("Currency")
      [] OTHER -> Ok("Text")

\* String to ValueType
decode_value_type(token) ==
    CASE token = "string" -> Ok("Text")
      [] token = "float" -> Ok("Number")
      [] token = "percentage" -> Ok("Percentage")
      [] token = "date" -> Ok("DateTime")
      [] token = "time" -> Ok("TimeDuration")
      [] token = "boolean" -> Ok("Boolean")
      [] token = "currency" -> Ok("Currency")
      [] OTHER -> Err([kind |-> "Ods", what |-> "Unknown cell-type", token |-> token])

\* an append that puts the newline in front of the first paragraph too
text_append_or_always(text, append, default) ==
    IF IsSome(text) THEN Some(Get(text) \o append) ELSE Some(append)

\* For adding \n to the string. A leading \n is ignored.
text_append_or(text, append, default) ==
    IF IsSome(text) THEN Some(Get(text) \o append) ELSE Some(default)

\* an append that puts the new text in front of the old
text_append_front(text, append) ==
    IF IsSome(text) THEN Some(append \o Get(text)) ELSE Some(append)

\* Append text.
text_append(text, append) ==
    IF IsSome(text) THEN Some(Get(text) \o append) ELSE Some(append)

----------------------------------------------------------------------------
(* The spreadsheet model: SCell and Sheet.                                 *)

\* SCell::new(): an empty value, no style, no formula, span (1, 1)
SCellNew == [value |-> Empty, style |-> None, formula |-> None, span |-> <<1, 1>>]

\* Sheet::new(): data maps (row, col) to SCell; col_style and col_cell_style
\* map a column index to a style name
SheetNew == [name |-> None, style |-> None, data |-> <<>>, col_style |-> <<>>,
             col_cell_style |-> <<>>, header_rows |-> None, header_cols |-> None]

\* a map with one key set
MapSet(m, k, v) == [x \in DOMAIN m \cup {k} |-> IF x = k THEN v ELSE m[x]]
MapGet(m, k) == IF k \in DOMAIN m THEN Some(m[k]) ELSE None

add_cell(sh, r, c, cell) == [sh EXCEPT !.data = MapSet(sh.data, <<r, c>>, cell)]
set_column_style(sh, c, s) == [sh EXCEPT !.col_style = MapSet(sh.col_style, c, s)]
set_column_cell_style(sh, c, s) ==
    [sh EXCEPT !.col_cell_style = MapSet(sh.col_cell_style, c, s)]
\* a push that puts the sheet in front of the others
push_sheet_first(b, sh) == <<sh>> \o b
push_sheet(b, sh) == Append(b, sh)

----------------------------------------------------------------------------
(* The events of the XML reader, and their attributes.                     *)

Ev(kind, name, attrs) == [kind |-> kind, name |-> name, attrs |-> attrs, text |-> ""]
TextEv(txt) == [kind |-> "Text", name |-> "", attrs |-> <<>>, text |-> txt]
EofEv == Ev("Eof", "", <<>>)
\* xml.read_event fails, or an attribute of the tag is malformed (attr?)
XmlErrorEv == Ev("XmlError", "", <<>>)

Attr(ev, k) == MapGet(ev.attrs, k)
HasAttr(ev, k) == k \in DOMAIN ev.attrs

IsCellName(n) == n = "table:table-cell" \/ n = "table:covered-table-cell"

NoEvent == Ev("None", "", <<>>)

----------------------------------------------------------------------------
(* The attribute readers of read_content.                                  *)

\* Reads the table attributes (table:print-ranges is not among the inputs).
read_table_attr(ev, sh) ==
    LET n == Attr(ev, "table:name")
        s == Attr(ev, "table:style-name")
    IN  [sh EXCEPT !.name = IF IsSome(n) THEN n ELSE sh.name,
                   !.style = IF IsSome(s) THEN s ELSE sh.style]

\* a reader of table-row that forgets the repeat count
read_table_row_attr_once(ev, rstyle) ==
    Ok([row_repeat |-> 1, row_style |-> rstyle])

\* a reader of table-row that takes a styled row as a single row
read_table_row_attr_styled(ev, rstyle) ==
    IF HasAttr(ev, "table:style-name")
    THEN Ok([row_repeat |-> 1, row_style |-> Attr(ev, "table:style-name")])
    ELSE IF HasAttr(ev, "table:number-rows-repeated")
         THEN IF ParseUcell(ev.attrs["table:number-rows-repeated"]).ok
              THEN Ok([row_repeat |-> ParseUcell(ev.attrs["table:number-rows-repeated"]).val,
                       row_style |-> rstyle])
              ELSE ParseUcell(ev.attrs["table:number-rows-repeated"])
         ELSE Ok([row_repeat |-> 1, row_style |-> rstyle])

\* Reads table-row attributes: the repeat count, and the row style by reference.
read_table_row_attr(ev, rstyle) ==
    LET rep == IF HasAttr(ev, "table:number-rows-repeated")
               THEN ParseUcell(ev.attrs["table:number-rows-repeated"]) ELSE Ok(1)
        s == Attr(ev, "table:style-name")
    IN  IF rep.ok
        THEN Ok([row_repeat |-> rep.val, row_style |-> IF IsSome(s) THEN s ELSE rstyle])
        ELSE rep

\* while repeat > 0 { set_column_style; set_column_cell_style; tcol += 1; repeat -= 1 }
RECURSIVE ColumnLoop(_, _, _, _, _)
ColumnLoop(sh, t, repeat, style, cell_style) ==
    IF repeat > 0
    THEN LET s1 == IF IsSome(style) THEN set_column_style(sh, t, Get(style)) ELSE sh
             s2 == IF IsSome(cell_style) THEN set_column_cell_style(s1, t, Get(cell_style))
                   ELSE s1
         IN  ColumnLoop(s2, t + 1, repeat - 1, style, cell_style)
    ELSE [tcol |-> t, sheet |-> sh]

\* a reader of table-column that takes every column element as one column
read_table_column_once(ev, t, sh) ==
    Ok(ColumnLoop(sh, t, 1, Attr(ev, "table:style-name"),
                  Attr(ev, "table:default-cell-style-name")))

\* Reads the table-column attributes. Creates as many copies as indicated.
read_table_column(ev, t, sh) ==
    LET rep == IF HasAttr(ev, "table:number-columns-repeated")
               THEN ParseUcell(ev.attrs["table:number-columns-repeated"]) ELSE Ok(1)
    IN  IF rep.ok
        THEN Ok(ColumnLoop(sh, t, rep.val, Attr(ev, "table:style-name"),
                           Attr(ev, "table:default-cell-style-name")))
        ELSE rep

\* while cell_repeat > 1 { add_cell; col += 1; cell_repeat -= 1 } add_cell; col += 1
RECURSIVE CellLoop(_, _, _, _, _)
CellLoop(sh, r, c, cell_repeat, cell) ==
    IF cell_repeat > 1
    THEN CellLoop(add_cell(sh, r, c, cell), r, c + 1, cell_repeat - 1, cell)
    ELSE [col |-> c + 1, sheet |-> add_cell(sh, r, c, cell)]

\* the span attributes of a cell tag: Ok(<<rows, cols>>) or the parse error
ReadSpan(ev) ==
    LET rs == IF HasAttr(ev, "table:number-rows-spanned")
              THEN ParseUcell(ev.attrs["table:number-rows-spanned"]) ELSE Ok(1)
        cs == IF HasAttr(ev, "table:number-columns-spanned")
              THEN ParseUcell(ev.attrs["table:number-columns-spanned"]) ELSE Ok(1)
    IN  IF ~rs.ok THEN rs ELSE IF ~cs.ok THEN cs ELSE Ok(<<rs.val, cs.val>>)

ReadCellRepeat(ev) ==
    IF HasAttr(ev, "table:number-columns-repeated")
    THEN ParseUcell(ev.attrs["table:number-columns-repeated"]) ELSE Ok(1)

\* an allocation rule that gives every empty-tag cell its own entry
Materialized_every(ev) == TRUE

\* the cell is allocated when one of these attributes is present
Materialized(ev) ==
    \/ HasAttr(ev, "table:formula") \/ HasAttr(ev, "table:style-name")
    \/ HasAttr(ev, "table:number-rows-spanned") \/ HasAttr(ev, "table:number-columns-spanned")

\* a reader of empty-tag cells that stores a cell for every tag
read_empty_table_cell_stored(sh, ev, r, c) ==
    Ok(CellLoop(sh, r, c, 1, SCellNew))

\* Reads a table-cell from an empty XML tag.
read_empty_table_cell(sh, ev, r, c) ==
    LET rep == ReadCellRepeat(ev)
        span == ReadSpan(ev)
    IN  IF ~rep.ok THEN rep
        ELSE IF ~span.ok THEN span
        ELSE IF Materialized(ev)
             THEN Ok(CellLoop(sh, r, c, rep.val,
                              [SCellNew EXCEPT !.formula = Attr(ev, "table:formula"),
                                               !.style = Attr(ev, "table:style-name"),
                                               !.span = span.val]))
             ELSE Ok([col |-> c + rep.val, sheet |-> sh])

\* the value attributes all land in cell_value
ValueAttrs == {"office:date-value", "office:time-value", "office:value",
               "office:boolean-value"}
ReadCellValue(ev) ==
    IF \E k \in ValueAttrs : HasAttr(ev, k)
    THEN Some(ev.attrs[CHOOSE k \in ValueAttrs : HasAttr(ev, k)])
    ELSE None

\* read_table_cell, up to its loop: the locals after the attributes are read
read_table_cell_attr(ev) ==
    LET rep == ReadCellRepeat(ev)
        span == ReadSpan(ev)
        vt == IF HasAttr(ev, "office:value-type")
              THEN decode_value_type(ev.attrs["office:value-type"]) ELSE Ok("")
    IN  IF ~rep.ok THEN rep
        ELSE IF ~span.ok THEN span
        ELSE IF ~vt.ok THEN vt
        ELSE Ok([tag_name |-> ev.name,
                 cell |-> [SCellNew EXCEPT !.formula = Attr(ev, "table:formula"),
                                           !.style = Attr(ev, "table:style-name"),
                                           !.span = span.val],
                 cell_repeat |-> rep.val,
                 value_type |-> IF HasAttr(ev, "office:value-type") THEN Some(vt.val) ELSE None,
                 cell_value |-> ReadCellValue(ev),
                 cell_content |-> None,
                 cell_currency |-> Attr(ev, "office:currency")])

NoCell == <<>>

----------------------------------------------------------------------------
(* read_content and read_table_cell: one loop iteration per event.         *)

contentLocals == <<tcol, row, col, row_repeat, row_style, col_range_from, row_range_from>>

\* an error propagated by `?` up to read_ods_flags
Fail(e) ==
    /\ pc' = "error"
    /\ err' = Some(e)
    /\ UNCHANGED styleVars
    /\ UNCHANGED <<book, sheet, cur>>
    /\ UNCHANGED contentLocals

\* x - 1 on a ucell: at 0 a debug build panics and a release build wraps to
\* the bit pattern of u32::MAX, which as a 32-bit integer of TLC reads -1
Sub1Outcomes(x) == IF x = 0 THEN {"panic", "wrap"} ELSE {"ok"}

\* x + y on ucells: past u32::MAX a debug build panics and a release build
\* wraps.  On the 32 bits of x and y read as signed integers the sum carries
\* when both are negative, or when one is and the signed sum is not; the
\* signed sum is then the wrapped value
AddOutcomes(x, y) ==
    IF (x < 0 /\ y < 0) \/ ((x < 0) # (y < 0) /\ x + y >= 0)
    THEN {"panic", "wrap"} ELSE {"ok"}

Panic ==
    /\ pc' = "panic"
    /\ UNCHANGED styleVars
    /\ UNCHANGED <<book, sheet, cur, err>>
    /\ UNCHANGED contentLocals

----------------------------------------------------------------------------
(* The style sub-parsers: attributes and the objects they build.           *)

\* the key under which a tag carries an attribute that the attribute
\* iterator cannot parse, and a value that cannot be unescaped
Malformed == "<malformed>"
BadEscape == "&;"

\* the attributes of the tag with a key in K, unescaped and decoded: a value
\* that cannot be unescaped is an error; on a malformed attribute `attr?`
\* (strict) is an error and `if let Ok(attr) = attr` skips it
Attrs(ev, K, strict) ==
    LET keys == (DOMAIN ev.attrs \cap K) \ {Malformed}
    IN  IF strict /\ Malformed \in DOMAIN ev.attrs THEN Err([kind |-> "Xml"])
        ELSE IF \E k \in keys : ev.attrs[k] = BadEscape THEN Err([kind |-> "Xml"])
        ELSE Ok(IF keys = {} THEN <<>> ELSE [k \in keys |-> ev.attrs[k]])

\* set_prp(k, v) for every pair of `more`
Put(bag, more) ==
    IF DOMAIN more = {} THEN bag
    ELSE [k \in DOMAIN bag \cup DOMAIN more |-> IF k \in DOMAIN more THEN more[k] ELSE bag[k]]

\* the value of the key, or the default
AttrOr(a, k, default) == IF k \in DOMAIN a THEN a[k] ELSE default

FontDeclNew(origin) == [name |-> "", origin |-> origin, prp |-> <<>>]

\* prp maps the name of a property group to its attributes
StyleNew(origin, styleuse) ==
    [name |-> "", origin |-> origin, styleuse |-> styleuse, family |-> "None",
     parent |-> None, value_format |-> None, prp |-> <<>>]

ValueFormatNew(origin, styleuse) ==
    [name |-> "", origin |-> origin, styleuse |-> styleuse, v_type |-> "Text",
     prp |-> <<>>, parts |-> <<>>]

FormatPartNew(part_type) == [part_type |-> part_type, prp |-> <<>>, content |-> None]

PageLayoutNew ==
    [name |-> "", masterpage_name |-> None, prp |-> <<>>, header_prp |-> <<>>,
     footer_prp |-> <<>>, header |-> None, header_left |-> None, footer |-> None,
     footer_left |-> None]

HeaderFooterNew ==
    [region_left |-> <<>>, region_center |-> <<>>, region_right |-> <<>>, content |-> <<>>]

\* the WorkBook takes an object
add_font(font) ==
    /\ fonts' = Append(fonts, font)
    /\ UNCHANGED <<styles, formats, page_layouts>>
add_style(style) ==
    /\ styles' = MapSet(styles, style.name, style)
    /\ UNCHANGED <<fonts, formats, page_layouts>>
add_format(value_style) ==
    /\ formats' = MapSet(formats, value_style.name, value_style)
    /\ UNCHANGED <<fonts, styles, page_layouts>>
add_pagelayout(pl) ==
    /\ page_layouts' = MapSet(page_layouts, pl.name, pl)
    /\ UNCHANGED <<fonts, styles, formats>>
NoAdd == UNCHANGED <<fonts, styles, formats, page_layouts>>

\* a sub-parser is called with its locals, returns to its caller, goes round
\* its loop with new locals, or skips the event
Call(fn, locals) ==
    /\ pc' = fn
    /\ frames' = <<locals>> \o frames
    /\ UNCHANGED err
\* a sub-parser that stays in its loop where it should return
Return_staying == UNCHANGED <<pc, frames, err>>
Return ==
    /\ pc' = frames[1].ret
    /\ frames' = Tail(frames)
    /\ UNCHANGED err
Loop(locals) ==
    /\ frames' = <<locals>> \o Tail(frames)
    /\ UNCHANGED <<pc, err>>
\* a sub-parser that gives up at a tag it does not know
Skip_returning ==
    /\ NoAdd
    /\ pc' = frames[1].ret
    /\ frames' = Tail(frames)
    /\ UNCHANGED err
Skip ==
    /\ NoAdd
    /\ UNCHANGED <<pc, frames, err>>

----------------------------------------------------------------------------
(* style:style.                                                            *)

StyleFamilies ==
    "table" :> "Table" @@ "table-column" :> "TableColumn" @@ "table-row" :> "TableRow"
    @@ "table-cell" :> "TableCell"

read_style_attr(ev, style) ==
    LET a == Attrs(ev, {"style:name", "style:family", "style:parent-style-name",
                        "style:data-style-name"}, TRUE)
    IN  IF ~a.ok THEN a
        ELSE Ok([style EXCEPT
                    !.name = AttrOr(a.val, "style:name", @),
                    !.family = IF AttrOr(a.val, "style:family", "") \in DOMAIN StyleFamilies
                               THEN StyleFamilies[a.val["style:family"]] ELSE @,
                    !.parent = IF "style:parent-style-name" \in DOMAIN a.val
                               THEN Some(a.val["style:parent-style-name"]) ELSE @,
                    !.value_format = IF "style:data-style-name" \in DOMAIN a.val
                                     THEN Some(a.val["style:data-style-name"]) ELSE @])

\* read_style_style, up to its loop
read_style_style(ev, origin, styleuse) ==
    LET style == read_style_attr(ev, StyleNew(origin, styleuse))
    IN  IF ~style.ok THEN Fail(style.err)
        ELSE IF ev.kind = "Empty"
        THEN add_style(style.val) /\ UNCHANGED <<pc, frames, err>>
        ELSE Call("style", [ret |-> pc, style |-> style.val]) /\ NoAdd

PropertyGroups ==
    {"style:table-properties", "style:table-column-properties", "style:table-row-properties",
     "style:table-cell-properties", "style:text-properties", "style:paragraph-properties"}

\* copy_style_properties with the setter of the group
copy_style_properties(style, ev) ==
    LET a == Attrs(ev, DOMAIN ev.attrs, FALSE)
    IN  IF ~a.ok THEN a
        ELSE IF DOMAIN a.val = {} THEN Ok(style)
        ELSE Ok([style EXCEPT !.prp = MapSet(@, ev.name,
                                            Put(AttrOr(@, ev.name, <<>>), a.val))])

\* the match of read_style_style's loop
StyleLoop(ev) ==
    CASE ev.kind = "XmlError" -> Fail([kind |-> "Xml"])
      [] ev.kind \in {"Start", "Empty"} /\ ev.name \in PropertyGroups ->
            LET style == copy_style_properties(frames[1].style, ev)
            IN  IF style.ok
                THEN Loop([frames[1] EXCEPT !.style = style.val]) /\ NoAdd
                ELSE Fail(style.err)
      [] ev.kind = "End" /\ ev.name = "style:style" ->
            add_style(frames[1].style) /\ Return
      [] ev.kind = "Eof" -> Return /\ NoAdd
      [] OTHER -> Skip

----------------------------------------------------------------------------
(* number:*-style.                                                         *)

\* the tags of a value format, with the ValueType each sets
ValueFormatTags ==
    "number:boolean-style" :> "Boolean" @@ "number:date-style" :> "DateTime"
    @@ "number:time-style" :> "TimeDuration" @@ "number:number-style" :> "Number"
    @@ "number:currency-style" :> "Currency" @@ "number:percentage-style" :> "Percentage"
    @@ "number:text-style" :> "Text"

\* the tags of the parts that are complete with their tag
FormatPartTags ==
    "number:boolean" :> "Boolean" @@ "number:number" :> "Number"
    @@ "number:scientific-number" :> "Scientific" @@ "number:day" :> "Day"
    @@ "number:month" :> "Month" @@ "number:year" :> "Year" @@ "number:era" :> "Era"
    @@ "number:day-of-week" :> "DayOfWeek" @@ "number:week-of-year" :> "WeekOfYear"
    @@ "number:quarter" :> "Quarter" @@ "number:hours" :> "Hours"
    @@ "number:minutes" :> "Minutes" @@ "number:seconds" :> "Seconds"
    @@ "number:fraction" :> "Fraction" @@ "number:am-pm" :> "AmPm"
    @@ "number:embedded-text" :> "EmbeddedText" @@ "number:text-content" :> "TextContent"
    @@ "style:text" :> "Day" @@ "style:map" :> "StyleMap"

\* the tags of the parts that take their text content
ContentPartTags == "number:currency-symbol" :> "CurrencySymbol" @@ "number:text" :> "Text"

read_value_format_attr(value_type, value_style, ev) ==
    LET a == Attrs(ev, DOMAIN ev.attrs, TRUE)
    IN  IF ~a.ok THEN a
        ELSE Ok([value_style EXCEPT
                    !.v_type = value_type,
                    !.name = AttrOr(a.val, "style:name", @),
                    !.prp = Put(@, Attrs(ev, DOMAIN ev.attrs \ {"style:name"}, TRUE).val)])

\* read_value_format, up to its loop
read_value_format(ev, origin, styleuse) ==
    LET value_style == read_value_format_attr(ValueFormatTags[ev.name],
                                              ValueFormatNew(origin, styleuse), ev)
    IN  IF ~value_style.ok THEN Fail(value_style.err)
        ELSE /\ Call("value_format", [ret |-> pc, value_style |-> value_style.val,
                                      value_style_part |-> None])
             /\ NoAdd

read_part(ev, part_type) ==
    LET a == Attrs(ev, DOMAIN ev.attrs, FALSE)
    IN  IF ~a.ok THEN a ELSE Ok([FormatPartNew(part_type) EXCEPT !.prp = a.val])

\* value_style.push_part(part) if a part is pending
PushPending(f) ==
    [f EXCEPT !.value_style.parts = @ \o f.value_style_part, !.value_style_part = None]

\* the match of read_value_format's loop
ValueFormatLoop(ev) ==
    CASE ev.kind = "XmlError" -> Fail([kind |-> "Xml"])
      [] ev.kind \in {"Start", "Empty"} /\ ev.name \in DOMAIN FormatPartTags ->
            LET part == read_part(ev, FormatPartTags[ev.name])
            IN  IF part.ok
                THEN /\ Loop([frames[1] EXCEPT !.value_style.parts = Append(@, part.val)])
                     /\ NoAdd
                ELSE Fail(part.err)
      [] ev.kind \in {"Start", "Empty"} /\ ev.name \in DOMAIN ContentPartTags ->
            LET part == read_part(ev, ContentPartTags[ev.name])
            IN  IF part.ok
                THEN /\ Loop(IF ev.kind = "Empty"
                             THEN PushPending([frames[1] EXCEPT
                                                  !.value_style_part = Some(part.val)])
                             ELSE [frames[1] EXCEPT !.value_style_part = Some(part.val)])
                     /\ NoAdd
                ELSE Fail(part.err)
      [] ev.kind = "Text" ->
            IF ~IsSome(frames[1].value_style_part) THEN Skip
            ELSE IF ev.text = BadEscape THEN Fail([kind |-> "Xml"])
            ELSE /\ Loop([frames[1] EXCEPT !.value_style_part[1].content = Some(ev.text)])
                 /\ NoAdd
      [] ev.kind = "End" /\ ev.name \in DOMAIN ValueFormatTags ->
            add_format(frames[1].value_style) /\ Return
      [] ev.kind = "End" /\ ev.name \in DOMAIN ContentPartTags ->
            Loop(PushPending(frames[1])) /\ NoAdd
      [] ev.kind = "Eof" -> Return /\ NoAdd
      [] OTHER -> Skip

----------------------------------------------------------------------------
(* style:page-layout, style:master-page and the headers and footers.       *)

\* copy_pagelayout_properties with the setter of the bag
copy_pagelayout_properties(pl, bag, ev) ==
    LET a == Attrs(ev, DOMAIN ev.attrs, FALSE)
    IN  IF ~a.ok THEN a ELSE Ok([pl EXCEPT ![bag] = Put(@, a.val)])

\* read_page_layout, up to its loop
read_page_layout(ev) ==
    LET a == Attrs(ev, {"style:name"}, TRUE)
    IN  IF ~a.ok THEN Fail(a.err)
        ELSE /\ Call("page_layout",
                     [ret |-> pc,
                      pl |-> [PageLayoutNew EXCEPT !.name = AttrOr(a.val, "style:name", @)],
                      header_style |-> FALSE, footer_style |-> FALSE])
             /\ NoAdd

\* style:header-footer-properties: into the header bag if header_style, then
\* into the footer bag if footer_style
HeaderFooterProperties(f, ev) ==
    LET h == IF f.header_style THEN copy_pagelayout_properties(f.pl, "header_prp", ev)
             ELSE Ok(f.pl)
    IN  IF ~h.ok THEN h
        ELSE IF f.footer_style THEN copy_pagelayout_properties(h.val, "footer_prp", ev)
        ELSE h

\* the match of read_page_layout's loop, and the add_pagelayout behind it
PageLayoutLoop(ev) ==
    CASE ev.kind = "XmlError" -> Fail([kind |-> "Xml"])
      [] ev.kind \in {"Start", "Empty"} /\ ev.name = "style:page-layout-properties" ->
            LET pl == copy_pagelayout_properties(frames[1].pl, "prp", ev)
            IN  IF pl.ok THEN Loop([frames[1] EXCEPT !.pl = pl.val]) /\ NoAdd
                ELSE Fail(pl.err)
      [] ev.kind \in {"Start", "Empty"} /\ ev.name = "style:header-style" ->
            Loop([frames[1] EXCEPT !.header_style = TRUE]) /\ NoAdd
      [] ev.kind \in {"Start", "Empty"} /\ ev.name = "style:footer-style" ->
            Loop([frames[1] EXCEPT !.footer_style = TRUE]) /\ NoAdd
      [] ev.kind \in {"Start", "Empty"} /\ ev.name = "style:header-footer-properties" ->
            LET pl == HeaderFooterProperties(frames[1], ev)
            IN  IF pl.ok THEN Loop([frames[1] EXCEPT !.pl = pl.val]) /\ NoAdd
                ELSE Fail(pl.err)
      [] ev.kind = "End" /\ ev.name = "style:header-style" ->
            Loop([frames[1] EXCEPT !.header_style = FALSE]) /\ NoAdd
      [] ev.kind = "End" /\ ev.name = "style:footer-style" ->
            Loop([frames[1] EXCEPT !.footer_style = FALSE]) /\ NoAdd
      [] ev.kind = "End" /\ ev.name = "style:page-layout" ->
            add_pagelayout(frames[1].pl) /\ Return
      [] ev.kind = "Eof" -> add_pagelayout(frames[1].pl) /\ Return
      [] OTHER -> Skip

\* read_master_page, up to its loop: the PageLayout of the name is created
\* if there is none, and takes the name of the master page
read_master_page(ev) ==
    LET a == Attrs(ev, {"style:name", "style:page-layout-name"}, TRUE)
        pagelayout_name == AttrOr(a.val, "style:page-layout-name", "")
        pl == IF pagelayout_name \in DOMAIN page_layouts THEN page_layouts[pagelayout_name]
              ELSE [PageLayoutNew EXCEPT !.name = pagelayout_name]
    IN  IF ~a.ok THEN Fail(a.err)
        ELSE /\ add_pagelayout([pl EXCEPT
                    !.masterpage_name = Some(AttrOr(a.val, "style:name", ""))])
             /\ Call("master_page", [ret |-> pc, pagelayout_name |-> pagelayout_name])

\* the children of a master page, with the setter each result goes to
HeaderFooterTags ==
    "style:header" :> "header" @@ "style:header-left" :> "header_left"
    @@ "style:footer" :> "footer" @@ "style:footer-left" :> "footer_left"

\* the match of read_master_page's loop
MasterPageLoop(ev) ==
    CASE ev.kind = "XmlError" -> Fail([kind |-> "Xml"])
      [] ev.kind \in {"Start", "Empty"} /\ ev.name \in DOMAIN HeaderFooterTags ->
            /\ Call("headerfooter", [ret |-> pc, end_tag |-> "style:header",
                                     hf |-> HeaderFooterNew,
                                     set |-> HeaderFooterTags[ev.name]])
            /\ NoAdd
      [] ev.kind = "End" /\ ev.name = "style:master-page" -> Return /\ NoAdd
      [] ev.kind = "Eof" -> Return /\ NoAdd
      [] OTHER -> Skip

\* the children of a header or footer, with the setter each result goes to
\* and the end tag its sub-parser is given
RegionTags ==
    "style:region-left" :> "region_left" @@ "style:region-center" :> "region_center"
    @@ "style:region-right" :> "region_right" @@ "text:p" :> "content"

\* Ok(hf), and the setter of the master page's PageLayout applied to it
ReturnHeaderFooter ==
    /\ page_layouts' = [page_layouts EXCEPT
            ![frames[2].pagelayout_name][frames[1].set] = Some(frames[1].hf)]
    /\ UNCHANGED <<fonts, styles, formats>>
    /\ Return

\* the match of read_headerfooter's loop
read_headerfooter(ev) ==
    CASE ev.kind = "XmlError" -> Fail([kind |-> "Xml"])
      [] ev.kind \in {"Start", "Empty"} /\ ev.name \in DOMAIN RegionTags ->
            /\ Call("composit",
                    [ret |-> pc,
                     end_tag |-> IF ev.name = "text:p" THEN "text:p" ELSE "style:region-left",
                     cv |-> <<>>, set |-> RegionTags[ev.name]])
            /\ NoAdd
      [] ev.kind = "End" /\ ev.name = frames[1].end_tag -> ReturnHeaderFooter
      [] ev.kind = "Eof" -> ReturnHeaderFooter
      [] OTHER -> Skip

\* Composit::Start, Composit::Empty with their CompositTag
CompositTag(ev, a) == [kind |-> ev.kind, tag |-> ev.name, attrs |-> a]

\* cv.push(c)
PushComposit(c) == Loop([frames[1] EXCEPT !.cv = Append(@, c)]) /\ NoAdd

\* Ok(cv), and the setter of the header or footer applied to it
ReturnComposit ==
    /\ pc' = frames[1].ret
    /\ frames' = <<[frames[2] EXCEPT !.hf[frames[1].set] = frames[1].cv]>>
                 \o Tail(Tail(frames))
    /\ UNCHANGED err
    /\ NoAdd

\* the match of read_composit's loop
read_composit(ev) ==
    CASE ev.kind = "XmlError" -> Fail([kind |-> "Xml"])
      [] ev.kind \in {"Start", "Empty"} ->
            LET a == Attrs(ev, DOMAIN ev.attrs, FALSE)
            IN  IF a.ok THEN PushComposit(CompositTag(ev, a.val)) ELSE Fail(a.err)
      [] ev.kind = "Text" ->
            IF ev.text = BadEscape THEN Fail([kind |-> "Xml"])
            ELSE PushComposit([kind |-> "Text", text |-> ev.text])
      [] ev.kind = "End" ->
            IF ev.name = frames[1].end_tag THEN ReturnComposit
            ELSE PushComposit([kind |-> "End", tag |-> ev.name])
      [] ev.kind = "Eof" -> ReturnComposit
      [] OTHER -> Skip

----------------------------------------------------------------------------
(* The declaration blocks.                                                 *)

\* the match of read_fonts' loop
read_fonts(ev) ==
    CASE ev.kind = "XmlError" -> Fail([kind |-> "Xml"])
      [] ev.kind \in {"Start", "Empty"} /\ ev.name = "style:font-face" ->
            LET a == Attrs(ev, DOMAIN ev.attrs, TRUE)
            IN  IF ~a.ok THEN Fail(a.err)
                ELSE /\ add_font([frames[1].font EXCEPT
                            !.name = AttrOr(a.val, "style:name", @),
                            !.prp = Attrs(ev, DOMAIN ev.attrs \ {"style:name"}, TRUE).val])
                     /\ Loop([frames[1] EXCEPT !.font = FontDeclNew("Content")])
      [] ev.kind = "End" /\ ev.name = "office:font-face-decls" -> Return /\ NoAdd
      [] ev.kind = "Eof" -> Return /\ NoAdd
      [] OTHER -> Skip

\* the match of read_styles_tag's loop
read_styles_tag(ev) ==
    CASE ev.kind = "XmlError" -> Fail([kind |-> "Xml"])
      [] ev.kind \in {"Start", "Empty"} /\ ev.name = "style:style" ->
            read_style_style(ev, frames[1].origin, "Named")
      [] ev.kind \in {"Start", "Empty"} /\ ev.name \in DOMAIN ValueFormatTags ->
            read_value_format(ev, frames[1].origin, "Named")
      [] ev.kind = "End" /\ ev.name = "office:styles" -> Return /\ NoAdd
      [] ev.kind = "Eof" -> Return /\ NoAdd
      [] OTHER -> Skip

\* the match of read_auto_styles' loop
read_auto_styles(ev) ==
    CASE ev.kind = "XmlError" -> Fail([kind |-> "Xml"])
      [] ev.kind \in {"Start", "Empty"} /\ ev.name = "style:style" ->
            read_style_style(ev, frames[1].origin, "Automatic")
      [] ev.kind \in {"Start", "Empty"} /\ ev.name \in DOMAIN ValueFormatTags ->
            read_value_format(ev, frames[1].origin, "Automatic")
      [] ev.kind \in {"Start", "Empty"} /\ ev.name = "style:page-layout" ->
            read_page_layout(ev)
      [] ev.kind = "End" /\ ev.name = "office:automatic-styles" -> Return /\ NoAdd
      [] ev.kind = "Eof" -> Return /\ NoAdd
      [] OTHER -> Skip

\* the match of read_master_styles' loop
read_master_styles(ev) ==
    CASE ev.kind = "XmlError" -> Fail([kind |-> "Xml"])
      [] ev.kind \in {"Start", "Empty"} /\ ev.name = "style:master-page" ->
            read_master_page(ev)
      [] ev.kind = "End" /\ ev.name = "office:master-styles" -> Return /\ NoAdd
      [] ev.kind = "Eof" -> Return /\ NoAdd
      [] OTHER -> Skip

\* the blocks that read_content and read_styles hand to a sub-parser, with
\* the sub-parser of each
BlockNames ==
    {"office:font-face-decls", "office:styles", "office:automatic-styles",
     "office:master-styles"}

EnterBlock(ev, origin) ==
    /\ NoAdd
    /\ CASE ev.name = "office:font-face-decls" ->
                Call("fonts", [ret |-> pc, font |-> FontDeclNew(origin)])
         [] ev.name = "office:styles" -> Call("styles_tag", [ret |-> pc, origin |-> origin])
         [] ev.name = "office:automatic-styles" ->
                Call("auto_styles", [ret |-> pc, origin |-> origin])
         [] ev.name = "office:master-styles" ->
                Call("master_styles", [ret |-> pc, origin |-> origin])

\* the loop of the style sub-parser that holds the reader
StyleLoops(ev) ==
    CASE pc = "fonts" -> read_fonts(ev)
      [] pc = "styles_tag" -> read_styles_tag(ev)
      [] pc = "auto_styles" -> read_auto_styles(ev)
      [] pc = "master_styles" -> read_master_styles(ev)
      [] pc = "style" -> StyleLoop(ev)
      [] pc = "value_format" -> ValueFormatLoop(ev)
      [] pc = "page_layout" -> PageLayoutLoop(ev)
      [] pc = "master_page" -> MasterPageLoop(ev)
      [] pc = "headerfooter" -> read_headerfooter(ev)
      [] pc = "composit" -> read_composit(ev)

\* the match of read_content's loop
read_content(ev) ==
    CASE ev.kind = "XmlError" -> Fail([kind |-> "Xml"])
      [] ev.kind = "Start" /\ ev.name = "table:table" ->
            /\ sheet' = read_table_attr(ev, sheet)
            /\ UNCHANGED styleVars
            /\ UNCHANGED <<pc, book, cur, err>>
            /\ UNCHANGED contentLocals
      [] ev.kind = "End" /\ ev.name = "table:table" ->
            /\ row' = 0
            /\ col' = 0
            /\ book' = push_sheet(book, sheet)
            /\ sheet' = SheetNew
            /\ UNCHANGED styleVars
            /\ UNCHANGED <<pc, cur, err, tcol, row_repeat, row_style, col_range_from,
                           row_range_from>>
      [] ev.kind = "Start" /\ ev.name = "table:table-header-columns" ->
            /\ col_range_from' = tcol
            /\ UNCHANGED styleVars
            /\ UNCHANGED <<pc, book, sheet, cur, err, tcol, row, col, row_repeat, row_style,
                           row_range_from>>
      [] ev.kind = "End" /\ ev.name = "table:table-header-columns" ->
            \E o \in Sub1Outcomes(tcol) :
                IF o = "panic" THEN Panic
                ELSE /\ sheet' = [sheet EXCEPT
                            !.header_cols = Some(<<col_range_from, tcol - 1>>)]
                     /\ UNCHANGED styleVars
                     /\ UNCHANGED <<pc, book, cur, err>>
                     /\ UNCHANGED contentLocals
      [] ev.kind = "Empty" /\ ev.name = "table:table-column" ->
            LET r == read_table_column(ev, tcol, sheet)
            IN  IF r.ok
                THEN /\ tcol' = r.val.tcol
                     /\ sheet' = r.val.sheet
                     /\ UNCHANGED styleVars
                     /\ UNCHANGED <<pc, book, cur, err, row, col, row_repeat, row_style,
                                    col_range_from, row_range_from>>
                ELSE Fail(r.err)
      [] ev.kind = "Start" /\ ev.name = "table:table-header-rows" ->
            /\ row_range_from' = row
            /\ UNCHANGED styleVars
            /\ UNCHANGED <<pc, book, sheet, cur, err, tcol, row, col, row_repeat, row_style,
                           col_range_from>>
      [] ev.kind = "End" /\ ev.name = "table:table-header-rows" ->
            \E o \in Sub1Outcomes(row) :
                IF o = "panic" THEN Panic
                ELSE /\ sheet' = [sheet EXCEPT
                            !.header_rows = Some(<<row_range_from, row - 1>>)]
                     /\ UNCHANGED styleVars
                     /\ UNCHANGED <<pc, book, cur, err>>
                     /\ UNCHANGED contentLocals
      [] ev.kind = "Start" /\ ev.name = "table:table-row" ->
            LET r == read_table_row_attr(ev, row_style)
            IN  IF r.ok
                THEN /\ row_repeat' = r.val.row_repeat
                     /\ row_style' = r.val.row_style
                     /\ UNCHANGED styleVars
                     /\ UNCHANGED <<pc, book, sheet, cur, err, tcol, row, col,
                                    col_range_from, row_range_from>>
                ELSE Fail(r.err)
      [] ev.kind = "End" /\ ev.name = "table:table-row" ->
            \E o \in AddOutcomes(row, row_repeat) :
                IF o = "panic" THEN Panic
                ELSE /\ row_style' = None
                     /\ row' = row + row_repeat
                     /\ col' = 0
                     /\ row_repeat' = 1
                     /\ UNCHANGED styleVars
                     /\ UNCHANGED <<pc, book, sheet, cur, err, tcol, col_range_from,
                                    row_range_from>>
      [] ev.kind = "Empty" /\ IsCellName(ev.name) ->
            LET r == read_empty_table_cell(sheet, ev, row, col)
            IN  IF r.ok
                THEN \E o \in AddOutcomes(col, r.val.col - col) :
                        IF o = "panic" THEN Panic
                        ELSE /\ col' = r.val.col
                             /\ sheet' = r.val.sheet
                             /\ UNCHANGED styleVars
                             /\ UNCHANGED <<pc, book, cur, err, tcol, row, row_repeat,
                                            row_style, col_range_from, row_range_from>>
                ELSE Fail(r.err)
      [] ev.kind = "Start" /\ IsCellName(ev.name) ->
            LET r == read_table_cell_attr(ev)
            IN  IF r.ok
                THEN /\ pc' = "cell"
                     /\ cur' = r.val
                     /\ UNCHANGED styleVars
                     /\ UNCHANGED <<book, sheet, err>>
                     /\ UNCHANGED contentLocals
                ELSE Fail(r.err)
      [] ev.kind = "Start" /\ ev.name \in BlockNames ->
            /\ EnterBlock(ev, "Content")
            /\ UNCHANGED <<book, sheet, cur>>
            /\ UNCHANGED contentLocals
      [] ev.kind = "Eof" ->
            /\ pc' = "styles"
            /\ UNCHANGED styleVars
            /\ UNCHANGED <<book, sheet, cur, err>>
            /\ UNCHANGED contentLocals
      [] OTHER ->
            /\ UNCHANGED styleVars
            /\ UNCHANGED <<pc, book, sheet, cur, err>>
            /\ UNCHANGED contentLocals

\* a close of the cell that stores one cell whatever the repeat count
CloseCell_single ==
    /\ sheet' = add_cell(sheet, row, col, cur.cell)
    /\ col' = col + 1
    /\ pc' = "content"
    /\ cur' = NoCell
    /\ UNCHANGED styleVars
    /\ UNCHANGED <<book, err, tcol, row, row_repeat, row_style, col_range_from,
                   row_range_from>>

\* the closing tag of the cell: decode the value, store the cells, return col
Stored(r) ==
    /\ sheet' = r.sheet
    /\ col' = r.col
    /\ pc' = "content"
    /\ cur' = NoCell
    /\ UNCHANGED styleVars
    /\ UNCHANGED <<book, err, tcol, row, row_repeat, row_style, col_range_from,
                   row_range_from>>

\* col += 1 for every cell stored
StoredOrPanic(r) ==
    \E o \in AddOutcomes(col, r.col - col) : IF o = "panic" THEN Panic ELSE Stored(r)

Decoded(v) ==
    IF v.ok
    THEN StoredOrPanic(CellLoop(sheet, row, col, cur.cell_repeat,
                                [cur.cell EXCEPT !.value = v.val]))
    ELSE Fail(v.err)

CloseCell ==
    \E o \in OverflowOutcomes(cur.value_type, cur.cell_value) :
        IF o = "panic" THEN Panic
        ELSE Decoded(parse_value(cur.value_type, cur.cell_value, cur.cell_content,
                                 cur.cell_currency, row, col))

CellContent(c) ==
    /\ cur' = [cur EXCEPT !.cell_content = c]
    /\ UNCHANGED styleVars
    /\ UNCHANGED <<pc, book, sheet, err>>
    /\ UNCHANGED contentLocals

\* the match of read_table_cell's loop
read_table_cell(ev) ==
    CASE ev.kind = "XmlError" -> Fail([kind |-> "Xml"])
      [] ev.kind = "Text" -> CellContent(text_append(cur.cell_content, ev.text))
      [] ev.kind = "Start" /\ ev.name = "text:p" ->
            CellContent(text_append_or(cur.cell_content, "\n", ""))
      [] ev.kind = "Empty" /\ ev.name = "text:s" ->
            CellContent(text_append(cur.cell_content, " "))
      [] ev.kind = "End" /\ ev.name # "text:p" /\ ev.name # "text:a"
                         /\ ev.name = cur.tag_name -> CloseCell
      [] ev.kind = "Eof" ->
            /\ pc' = "content"
            /\ cur' = NoCell
            /\ UNCHANGED styleVars
            /\ UNCHANGED <<book, sheet, err>>
            /\ UNCHANGED contentLocals
      [] OTHER ->
            /\ UNCHANGED styleVars
            /\ UNCHANGED <<pc, book, sheet, cur, err>>
            /\ UNCHANGED contentLocals

\* the match of read_styles' loop
read_styles(ev) ==
    CASE ev.kind = "XmlError" -> Fail([kind |-> "Xml"])
      [] ev.kind = "Start" /\ ev.name \in BlockNames ->
            /\ EnterBlock(ev, "Styles")
            /\ UNCHANGED <<book, sheet, cur>>
            /\ UNCHANGED contentLocals
      [] ev.kind = "Eof" ->
            /\ pc' = "done"
            /\ UNCHANGED styleVars
            /\ UNCHANGED <<book, sheet, cur, err>>
            /\ UNCHANGED contentLocals
      [] OTHER ->
            /\ UNCHANGED styleVars
            /\ UNCHANGED <<pc, book, sheet, cur, err>>
            /\ UNCHANGED contentLocals

\* if dump_xml { println!("{:?}", event); }: an event that failed to be read
\* is not printed, a tag with an attribute that fails to parse is
println(ev) ==
    /\ UNCHANGED dump_xml
    /\ printed' \in (IF ~dump_xml THEN {printed}
                     ELSE IF ev.kind = "XmlError" THEN {printed, printed + 1}
                     ELSE {printed + 1})

\* a reader whose sub-parsers leave the event alone once it is printed
Parse_dumping(d, ev) ==
    IF d
    THEN /\ UNCHANGED styleVars
         /\ UNCHANGED <<pc, book, sheet, cur, err>>
         /\ UNCHANGED contentLocals
    ELSE CASE pc = "content" -> read_content(ev)
           [] pc = "cell" -> read_table_cell(ev)
           [] pc = "styles" -> read_styles(ev)
           [] OTHER -> /\ StyleLoops(ev)
                       /\ UNCHANGED <<book, sheet, cur>>
                       /\ UNCHANGED contentLocals

\* the match of the loop that holds the reader; every sub-parser is handed
\* the flag d and uses it for nothing but the guard of its println!
Parse(d, ev) ==
    CASE pc = "content" -> read_content(ev)
      [] pc = "cell" -> read_table_cell(ev)
      [] pc = "styles" -> read_styles(ev)
      [] OTHER -> /\ StyleLoops(ev)
                  /\ UNCHANGED <<book, sheet, cur>>
                  /\ UNCHANGED contentLocals

\* the loop that holds the reader takes the event
\* content.xml is read to its end, then styles.xml from its start
Consume(ev) ==
    /\ last' = ev
    /\ nev' = nev + 1
    /\ at_eof' = (ev.kind = "Eof" /\ pc # "content")
    /\ println(ev)
    /\ Parse(dump_xml, ev)

----------------------------------------------------------------------------
(* The inputs: the events an XML reader can hand to the loops.             *)

\* the decimal digits of a natural number
RECURSIVE ToDec(_)
ToDec(n) == IF n < 10 THEN <<DigitChars[n + 1]>>
            ELSE ToDec(n \div 10) \o <<DigitChars[(n % 10) + 1]>>

\* an attribute that is absent or has one of the values of V
OptAttr(k, V) == {<<>>} \cup {k :> v : v \in V}
Unparsable == <<"x">>

TableStartEvents ==
    {Ev("Start", "table:table", a) : a \in OptAttr("table:name", {"T"})}

RepeatAttr(k, n) == k :> ToDec(n)

ColumnEvents ==
    {Ev("Empty", "table:table-column", <<>>),
     Ev("Empty", "table:table-column",
        RepeatAttr("table:number-columns-repeated", MaxRepeat)
        @@ "table:style-name" :> "co1" @@ "table:default-cell-style-name" :> "ce1"),
     Ev("Empty", "table:table-column",
        RepeatAttr("table:number-columns-repeated", MaxRepeat)
        @@ "table:default-cell-style-name" :> "ce2"),
     Ev("Empty", "table:table-column",
        RepeatAttr("table:number-columns-repeated", 0) @@ "table:style-name" :> "co2"),
     Ev("Empty", "table:table-column", "table:number-columns-repeated" :> Unparsable)}

RowStartEvents ==
    {Ev("Start", "table:table-row", <<>>),
     Ev("Start", "table:table-row", RepeatAttr("table:number-rows-repeated", MaxRepeat)),
     Ev("Start", "table:table-row",
        RepeatAttr("table:number-rows-repeated", 0) @@ "table:style-name" :> "ro1"),
     Ev("Start", "table:table-row", "table:number-rows-repeated" :> Unparsable)}

CellNames == {"table:table-cell", "table:covered-table-cell"}

\* empty-tag cells that are not stored: none of formula, style, spans
BareEmptyCellEvents ==
    {Ev("Empty", n, r) :
        n \in CellNames,
        r \in OptAttr("table:number-columns-repeated", {ToDec(0), ToDec(MaxRepeat)})}
    \cup {Ev("Empty", "table:table-cell", "office:value-type" :> "float")}

\* empty-tag cells that are stored
StoredEmptyCellEvents ==
    {Ev("Empty", "table:table-cell", r @@ "table:style-name" :> "ce1") :
        r \in OptAttr("table:number-columns-repeated", {ToDec(0), ToDec(MaxRepeat)})}
    \cup {Ev("Empty", "table:covered-table-cell", "table:number-columns-spanned" :> <<"2">>),
          Ev("Empty", "table:table-cell",
             "table:number-rows-spanned" :> <<"2">> @@ "table:formula" :> "of:=1")}

EmptyCellEvents ==
    BareEmptyCellEvents \cup StoredEmptyCellEvents
    \cup {Ev("Empty", "table:table-cell", "office:value-type" :> "void"),
          Ev("Empty", "table:table-cell", "table:number-columns-repeated" :> Unparsable),
          Ev("Empty", "table:table-cell", "table:number-columns-spanned" :> Unparsable)}

\* open-tag cells whose value decodes
GoodCellStartEvents ==
    {Ev("Start", "table:table-cell", r @@ v) :
        r \in OptAttr("table:number-columns-repeated", {ToDec(MaxRepeat)}),
        v \in {<<>>, "office:value-type" :> "string"}}
    \cup {Ev("Start", "table:covered-table-cell", "office:value-type" :> "string"),
          Ev("Start", "table:table-cell",
             RepeatAttr("table:number-columns-repeated", 0)
             @@ "office:value-type" :> "string"),
          Ev("Start", "table:table-cell",
             "office:value-type" :> "float" @@ "office:value" :> <<"1">>
             @@ "table:style-name" :> "ce1"),
          Ev("Start", "table:table-cell",
             "office:value-type" :> "string" @@ "table:number-columns-spanned" :> <<"2">>),
          Ev("Start", "table:table-cell",
             "office:value-type" :> "currency" @@ "office:value" :> <<"1">>
             @@ "office:currency" :> "EUR")}

\* open-tag cells with a declared type and no value, or no currency code
NoValueCellStartEvents ==
    {Ev("Start", "table:table-cell", r @@ "office:value-type" :> ty) :
        r \in OptAttr("table:number-columns-repeated", {ToDec(MaxRepeat)}),
        ty \in {"float", "percentage", "date", "time", "boolean", "currency"}}
    \cup {Ev("Start", "table:table-cell",
             "office:value-type" :> "currency" @@ "office:value" :> v) :
             v \in {<<"1">>, Unparsable}}

CellStartEvents ==
    GoodCellStartEvents \cup NoValueCellStartEvents
    \cup {Ev("Start", "table:table-cell", "office:value-type" :> "void"),
          Ev("Start", "table:table-cell", "table:number-columns-repeated" :> Unparsable)}

ContentOtherEvents ==
    {Ev("Start", "office:body", <<>>),
     Ev("Empty", "table:table-row", "table:number-rows-repeated" :> <<"2">>)}

CellEndEvents == {Ev("End", n, <<>>) : n \in CellNames}
CellOtherEvents ==
    {Ev("End", "text:p", <<>>), Ev("Start", "text:a", <<>>), Ev("End", "table:table", <<>>)}

----------------------------------------------------------------------------
(* The reader fed with any sequence of events.                             *)

Init ==
    /\ pc = "content"
    /\ book = <<>>
    /\ sheet = SheetNew
    /\ tcol = 0
    /\ row = 0
    /\ col = 0
    /\ row_repeat = 1
    /\ row_style = None
    /\ col_range_from = 0
    /\ row_range_from = 0
    /\ cur = NoCell
    /\ err = None
    /\ last = NoEvent
    /\ nev = 0
    /\ NoStyles
    /\ dump_xml = FALSE
    /\ printed = 0
    /\ at_eof = FALSE
    /\ wb = <<>>
    /\ draft = SheetNew
    /\ nops = 0
    /\ stream = <<>>
    /\ inp = <<>>
    /\ out = <<>>

\* the XML reader hands the event ev to the loop that holds it; after end of
\* input it yields end of input again
Feed(ev) ==
    /\ nev < MaxEvents
    /\ at_eof => ev.kind = "Eof"
    /\ Consume(ev)
    /\ UNCHANGED rtVars
    /\ UNCHANGED <<inp, out>>

TableStart ==
    /\ pc = "content"
    /\ \E ev \in TableStartEvents : Feed(ev)

TableEnd ==
    /\ pc = "content"
    /\ \E ev \in {Ev("End", "table:table", <<>>)} : Feed(ev)

HeaderColumnsStart ==
    /\ pc = "content"
    /\ \E ev \in {Ev("Start", "table:table-header-columns", <<>>)} : Feed(ev)

HeaderColumnsEnd ==
    /\ pc = "content"
    /\ \E ev \in {Ev("End", "table:table-header-columns", <<>>)} : Feed(ev)

TableColumn ==
    /\ pc = "content"
    /\ \E ev \in ColumnEvents : Feed(ev)

HeaderRowsStart ==
    /\ pc = "content"
    /\ \E ev \in {Ev("Start", "table:table-header-rows", <<>>)} : Feed(ev)

HeaderRowsEnd ==
    /\ pc = "content"
    /\ \E ev \in {Ev("End", "table:table-header-rows", <<>>)} : Feed(ev)

RowStart ==
    /\ pc = "content"
    /\ \E ev \in RowStartEvents : Feed(ev)

RowEnd ==
    /\ pc = "content"
    /\ \E ev \in {Ev("End", "table:table-row", <<>>)} : Feed(ev)

EmptyCell ==
    /\ pc = "content"
    /\ \E ev \in EmptyCellEvents : Feed(ev)

CellStart ==
    /\ pc = "content"
    /\ \E ev \in CellStartEvents : Feed(ev)

ContentEof ==
    /\ pc = "content"
    /\ \E ev \in {EofEv} : Feed(ev)

ContentOther ==
    /\ pc = "content"
    /\ \E ev \in ContentOtherEvents : Feed(ev)

ContentXmlError ==
    /\ pc = "content"
    /\ \E ev \in {XmlErrorEv} : Feed(ev)

CellText ==
    /\ pc = "cell"
    /\ \E ev \in {TextEv("A")} : Feed(ev)

CellParagraph ==
    /\ pc = "cell"
    /\ \E ev \in {Ev("Start", "text:p", <<>>)} : Feed(ev)

CellSpace ==
    /\ pc = "cell"
    /\ \E ev \in {Ev("Empty", "text:s", "text:c" :> <<"2">>)} : Feed(ev)

CellEnd ==
    /\ pc = "cell"
    /\ \E ev \in CellEndEvents : Feed(ev)

CellEof ==
    /\ pc = "cell"
    /\ \E ev \in {EofEv} : Feed(ev)

CellOther ==
    /\ pc = "cell"
    /\ \E ev \in CellOtherEvents : Feed(ev)

CellXmlError ==
    /\ pc = "cell"
    /\ \E ev \in {XmlErrorEv} : Feed(ev)

StylesEof ==
    /\ pc = "styles"
    /\ Consume(EofEv)
    /\ UNCHANGED rtVars
    /\ UNCHANGED <<inp, out>>

Next ==
    \/ TableStart \/ TableEnd
    \/ HeaderColumnsStart \/ HeaderColumnsEnd \/ TableColumn
    \/ HeaderRowsStart \/ HeaderRowsEnd
    \/ RowStart \/ RowEnd
    \/ EmptyCell \/ CellStart
    \/ ContentEof \/ ContentOther \/ ContentXmlError
    \/ CellText \/ CellParagraph \/ CellSpace \/ CellEnd \/ CellEof \/ CellOther
    \/ CellXmlError
    \/ StylesEof

Spec == Init /\ [][Next]_vars

----------------------------------------------------------------------------
(* read_ods_flags fed with the events of the style declarations.           *)

BlockStartEvents == {Ev("Start", b, <<>>) : b \in BlockNames}

ContentStyleEvents ==
    BlockStartEvents
    \cup {Ev("Start", "table:table-cell", "office:value-type" :> "string"),
          Ev("Start", "office:body", <<>>)}

StylesEvents == BlockStartEvents \cup {Ev("End", "office:font-face-decls", <<>>)}

FontsEvents ==
    {Ev(k, "style:font-face", "style:name" :> "F1" @@ "svg:font-family" :> "Arial") :
        k \in {"Start", "Empty"}}
    \cup {Ev("Empty", "style:font-face", Malformed :> ""),
          Ev("End", "style:font-face", <<>>),
          Ev("End", "office:font-face-decls", <<>>)}

DeclarationEvents ==
    {Ev(k, "style:style", "style:name" :> "ce1" @@ "style:family" :> "table-cell") :
        k \in {"Start", "Empty"}}
    \cup {Ev(k, "number:number-style", "style:name" :> "N0") : k \in {"Start", "Empty"}}
    \cup {Ev("Start", "style:style", "style:name" :> "ce2" @@ Malformed :> ""),
          Ev("Start", "style:page-layout", "style:name" :> "pm1"),
          Ev("Start", "style:default-style", <<>>),
          Ev("End", "office:styles", <<>>),
          Ev("End", "office:automatic-styles", <<>>)}

StyleEvents ==
    {Ev("Empty", "style:table-cell-properties", a) :
        a \in {"fo:color" :> "red", "fo:color" :> BadEscape,
               "fo:color" :> "red" @@ Malformed :> ""}}
    \cup {Ev("Start", "style:map", <<>>), Ev("End", "style:style", <<>>)}

ValueFormatEvents ==
    {Ev("Empty", "number:number", "number:decimal-places" :> "2"),
     Ev("Start", "number:currency-symbol", "number:language" :> "de"),
     Ev("Empty", "number:text", <<>>),
     TextEv("EUR"),
     Ev("End", "number:currency-symbol", <<>>),
     Ev("End", "number:number-style", <<>>),
     Ev("End", "number:text-style", <<>>),
     Ev("Start", "number:unknown", "number:language" :> BadEscape)}

PageLayoutEvents ==
    {Ev("Empty", "style:page-layout-properties", "fo:page-width" :> "21cm"),
     Ev("Start", "style:header-style", <<>>),
     Ev("Empty", "style:header-style", <<>>),
     Ev("End", "style:header-style", <<>>),
     Ev("Start", "style:footer-style", <<>>),
     Ev("Empty", "style:header-footer-properties", "fo:min-height" :> "1cm"),
     Ev("Empty", "style:header-footer-properties", "fo:min-height" :> BadEscape),
     Ev("Start", "style:footnote-sep", <<>>),
     Ev("End", "style:page-layout", <<>>)}

MasterStylesEvents ==
    {Ev("Start", "style:master-page", "style:name" :> "Default" @@ "style:page-layout-name" :> "pm1"),
     Ev("Empty", "style:master-page", "style:name" :> "Report"),
     Ev("Start", "style:handout-master", <<>>),
     Ev("End", "office:master-styles", <<>>)}

MasterPageEvents ==
    {Ev("Start", "style:header", <<>>),
     Ev("Start", "style:footer-left", <<>>),
     Ev("Start", "office:forms", <<>>),
     Ev("End", "style:master-page", <<>>)}

HeaderFooterEvents ==
    {Ev("Start", "style:region-left", <<>>),
     Ev("Start", "style:region-center", <<>>),
     Ev("Start", "text:p", <<>>),
     Ev("End", "style:header", <<>>),
     Ev("End", "style:footer-left", <<>>)}

CompositEvents ==
    {Ev("Start", "text:span", "text:style-name" :> "T1"),
     Ev("Empty", "text:date", "text:style-name" :> BadEscape),
     TextEv("A"),
     Ev("End", "text:span", <<>>),
     Ev("End", "style:region-left", <<>>),
     Ev("End", "style:region-center", <<>>),
     Ev("End", "text:p", <<>>)}

\* read_ods_flags(path, dump_xml)
InitStyles ==
    /\ pc = "content"
    /\ book = <<>>
    /\ sheet = SheetNew
    /\ tcol = 0
    /\ row = 0
    /\ col = 0
    /\ row_repeat = 1
    /\ row_style = None
    /\ col_range_from = 0
    /\ row_range_from = 0
    /\ cur = NoCell
    /\ err = None
    /\ last = NoEvent
    /\ nev = 0
    /\ NoStyles
    /\ dump_xml \in BOOLEAN
    /\ printed = 0
    /\ at_eof = FALSE
    /\ wb = <<>>
    /\ draft = SheetNew
    /\ nops = 0
    /\ stream = <<>>
    /\ inp = <<>>
    /\ out = <<>>

\* the XML reader hands the event ev to the loop that holds it; the end of
\* input it yields whenever it is reached
FeedStyles(ev) ==
    /\ ev.kind # "Eof" => nev < MaxStyleEvents
    /\ at_eof => ev.kind = "Eof"
    /\ Consume(ev)
    /\ UNCHANGED rtVars
    /\ UNCHANGED <<inp, out>>

ContentStyleEvent ==
    /\ pc = "content"
    /\ \E ev \in ContentStyleEvents : FeedStyles(ev)

StylesEvent ==
    /\ pc = "styles"
    /\ \E ev \in StylesEvents : FeedStyles(ev)

FontsEvent ==
    /\ pc = "fonts"
    /\ \E ev \in FontsEvents : FeedStyles(ev)

StylesTagEvent ==
    /\ pc = "styles_tag"
    /\ \E ev \in DeclarationEvents : FeedStyles(ev)

AutoStylesEvent ==
    /\ pc = "auto_styles"
    /\ \E ev \in DeclarationEvents : FeedStyles(ev)

StyleEvent ==
    /\ pc = "style"
    /\ \E ev \in StyleEvents : FeedStyles(ev)

ValueFormatEvent ==
    /\ pc = "value_format"
    /\ \E ev \in ValueFormatEvents : FeedStyles(ev)

PageLayoutEvent ==
    /\ pc = "page_layout"
    /\ \E ev \in PageLayoutEvents : FeedStyles(ev)

MasterStylesEvent ==
    /\ pc = "master_styles"
    /\ \E ev \in MasterStylesEvents : FeedStyles(ev)

MasterPageEvent ==
    /\ pc = "master_page"
    /\ \E ev \in MasterPageEvents : FeedStyles(ev)

HeaderFooterEvent ==
    /\ pc = "headerfooter"
    /\ \E ev \in HeaderFooterEvents : FeedStyles(ev)

CompositEvent ==
    /\ pc = "composit"
    /\ \E ev \in CompositEvents : FeedStyles(ev)

OpenCellEvent ==
    /\ pc = "cell"
    /\ \E ev \in CellOtherEvents \cup CellEndEvents \cup {TextEv("A")} : FeedStyles(ev)

EndOfInput ==
    /\ pc \notin {"done", "error", "panic"}
    /\ \E ev \in {EofEv} : FeedStyles(ev)

ReadEventFails ==
    /\ pc \notin {"done", "error", "panic"}
    /\ \E ev \in {XmlErrorEv} : FeedStyles(ev)

NextStyles ==
    \/ ContentStyleEvent \/ StylesEvent \/ FontsEvent \/ StylesTagEvent \/ AutoStylesEvent
    \/ StyleEvent \/ ValueFormatEvent \/ PageLayoutEvent \/ MasterStylesEvent
    \/ MasterPageEvent \/ HeaderFooterEvent \/ CompositEvent \/ OpenCellEvent
    \/ EndOfInput \/ ReadEventFails

SpecStyles == InitStyles /\ [][NextStyles]_vars

----------------------------------------------------------------------------
(* read_content fed with rows and cells whose repeat counts reach u32::MAX. *)

\* u32::MAX in decimal digits
HugeCount == <<"4", "2", "9", "4", "9", "6", "7", "2", "9", "5">>

CursorTableEvents ==
    {Ev("Start", "table:table", <<>>), Ev("End", "table:table", <<>>)}

CursorRowEvents ==
    {Ev("Start", "table:table-row", a) :
        a \in OptAttr("table:number-rows-repeated", {ToDec(MaxRepeat), HugeCount})}
    \cup {Ev("End", "table:table-row", <<>>)}

CursorEmptyCellEvents ==
    {Ev("Empty", "table:table-cell", a) :
        a \in OptAttr("table:number-columns-repeated", {HugeCount})}
    \cup {Ev("Empty", "table:table-cell", "table:style-name" :> "ce1")}

CursorOpenCellEvents ==
    {Ev("Start", "table:table-cell", "office:value-type" :> "string")}

CursorInCellEvents == {TextEv("A"), Ev("End", "table:table-cell", <<>>)}

FeedCursor(ev) ==
    /\ ev.kind # "Eof" => nev < MaxCursorEvents
    /\ at_eof => ev.kind = "Eof"
    /\ Consume(ev)
    /\ UNCHANGED rtVars
    /\ UNCHANGED <<inp, out>>

CursorTable ==
    /\ pc = "content"
    /\ \E ev \in CursorTableEvents : FeedCursor(ev)

CursorRow ==
    /\ pc = "content"
    /\ \E ev \in CursorRowEvents : FeedCursor(ev)

CursorEmptyCell ==
    /\ pc = "content"
    /\ \E ev \in CursorEmptyCellEvents : FeedCursor(ev)

CursorOpenCell ==
    /\ pc = "content"
    /\ \E ev \in CursorOpenCellEvents : FeedCursor(ev)

CursorInCell ==
    /\ pc = "cell"
    /\ \E ev \in CursorInCellEvents : FeedCursor(ev)

CursorEof ==
    /\ pc \in {"content", "cell", "styles"}
    /\ \E ev \in {EofEv} : FeedCursor(ev)

NextCursor ==
    \/ CursorTable \/ CursorRow \/ CursorEmptyCell \/ CursorOpenCell \/ CursorInCell
    \/ CursorEof

SpecCursor == Init /\ [][NextCursor]_vars

\* the XML reader hands over the next event whenever a loop asks for one, and
\* the end of the input once the document is used up
LiveCursor == Init /\ [][NextCursor]_vars /\ WF_vars(NextCursor)

----------------------------------------------------------------------------
(* One value format of styles.xml, with the text nodes of the document as  *)
(* the XML reader turns them into events.                                  *)

MaxFormatEvents == 5
MaxTexts == 2

\* the characters Reader::trim_text(true) removes at both ends of a text node
IsWhitespace(c) == c \in {" ", "\n", "\t", "\r"}

RECURSIVE TrimStart(_)
TrimStart(s) == IF s # <<>> /\ IsWhitespace(s[1]) THEN TrimStart(Tail(s)) ELSE s

RECURSIVE TrimEnd(_)
TrimEnd(s) ==
    IF s # <<>> /\ IsWhitespace(s[Len(s)]) THEN TrimEnd(SubSeq(s, 1, Len(s) - 1)) ELSE s

\* the characters of s as one string
RECURSIVE Chars(_)
Chars(s) == IF s = <<>> THEN "" ELSE s[1] \o Chars(Tail(s))

\* the text nodes of the document, character by character
TextNodes == {<<"E", "U", "R">>, <<" ">>, <<",", " ">>}

FormatOpenEvents ==
    [content |-> {Ev("Start", "office:automatic-styles", <<>>)},
     auto_styles |-> {Ev("Start", "number:currency-style", "style:name" :> "N1"),
                      Ev("Start", "number:date-style", "style:name" :> "N2")}]

FormatPartEvents ==
    {Ev("Empty", "number:number", "number:decimal-places" :> "2"),
     Ev("Empty", "number:day", <<>>),
     Ev("Start", "number:currency-symbol", "number:language" :> "de"),
     Ev("Start", "number:text", <<>>),
     Ev("Empty", "number:text", <<>>),
     Ev("Start", "number:unknown", <<>>)}

FormatCloseEvents ==
    {Ev("End", "number:currency-symbol", <<>>),
     Ev("End", "number:text", <<>>),
     Ev("End", "number:currency-style", <<>>),
     Ev("End", "number:date-style", <<>>)}

FeedFormat(ev) ==
    /\ ev.kind # "Eof" => nev < MaxFormatEvents
    /\ at_eof => ev.kind = "Eof"
    /\ Consume(ev)
    /\ UNCHANGED rtVars
    /\ UNCHANGED out

FormatOpen ==
    /\ pc \in DOMAIN FormatOpenEvents
    /\ \E ev \in FormatOpenEvents[pc] : FeedFormat(ev)
    /\ UNCHANGED inp

FormatPart ==
    /\ pc = "value_format"
    /\ \E ev \in FormatPartEvents : FeedFormat(ev)
    /\ UNCHANGED inp

FormatClose ==
    /\ pc = "value_format"
    /\ \E ev \in FormatCloseEvents : FeedFormat(ev)
    /\ UNCHANGED inp

\* xml.read_event over a text node: the node is trimmed, and a node that is
\* empty then yields no event at all; inp lists the nodes as the document has them
FormatText ==
    /\ pc = "value_format"
    /\ Len(inp) < MaxTexts
    /\ \E node \in TextNodes :
          /\ inp' = Append(inp, Chars(node))
          /\ IF TrimEnd(TrimStart(node)) = <<>>
             THEN UNCHANGED <<pc, book, sheet, tcol, row, col, row_repeat, row_style,
                              col_range_from, row_range_from, cur, err, last, nev, wb,
                              draft, nops, stream, out, frames, fonts, styles, formats,
                              page_layouts, dump_xml, printed, at_eof>>
             ELSE FeedFormat(TextEv(Chars(TrimEnd(TrimStart(node)))))

FormatEof ==
    /\ pc \in {"content", "auto_styles", "value_format", "styles"}
    /\ \E ev \in {EofEv} : FeedFormat(ev)
    /\ UNCHANGED inp

NextFormat == FormatOpen \/ FormatPart \/ FormatClose \/ FormatText \/ FormatEof

SpecFormat == InitStyles /\ [][NextFormat]_vars

----------------------------------------------------------------------------
(* parse_value on its own: the attributes of one cell, decoded once.       *)

\* n in decimal, zero-padded to w digits
RECURSIVE Pad(_, _)
Pad(n, w) == IF Len(ToDec(n)) >= w THEN ToDec(n) ELSE <<"0">> \o Pad(n, w - 1)

\* the fields an input was written from; the ones a family does not use are 0
Fields(y, mo, d, h, mi, s, nanos) ==
    [y |-> y, mo |-> mo, d |-> d, h |-> h, mi |-> mi, s |-> s, nanos |-> nanos,
     has |-> {}, istrue |-> FALSE]
NoFields == Fields(0, 0, 0, 0, 0, 0, 0)

ValueInput(fam, value_type, cell_value, f) ==
    [fam |-> fam, typed |-> TRUE, value_type |-> value_type, cell_value |-> cell_value,
     cell_content |-> None, cell_currency |-> None, f |-> f, row |-> 1, col |-> 2]

\* fractions of a second as written, with the nanoseconds they stand for
Fractions ==
    {[txt |-> <<>>, nanos |-> 0],
     [txt |-> <<".", "5">>, nanos |-> 500000000],
     [txt |-> <<".", "0", "0", "0", "0", "0", "0", "0", "0", "0">>, nanos |-> 0],
     [txt |-> <<".", "0", "0", "0", "0", "0", "0", "0", "0", "1">>, nanos |-> 1],
     [txt |-> <<".", "1", "2", "3", "4", "5", "6", "7", "8", "9", "1">>, nanos |-> 123456789]}

Years == {1999, 2020, 2100}
Months == {1, 2, 12, 13}
Days == {0, 1, 29, 30, 31}

DateText(y, mo, d) == Pad(y, 4) \o <<"-">> \o Pad(mo, 2) \o <<"-">> \o Pad(d, 2)
TimeText(h, mi, s) == Pad(h, 2) \o <<":">> \o Pad(mi, 2) \o <<":">> \o Pad(s, 2)

\* YYYY-MM-DD
DateInputs ==
    {ValueInput("date", "DateTime", Some(DateText(y, mo, d)), Fields(y, mo, d, 0, 0, 0, 0)) :
        y \in Years, mo \in Months, d \in Days}

\* YYYY-MM-DDTHH:MM:SS[.f]
TimestampInputs ==
    {ValueInput("timestamp", "DateTime",
                Some(DateText(2020, mo, 29) \o <<"T">> \o TimeText(h, mi, s) \o fr.txt),
                Fields(2020, mo, 29, h, mi, s, fr.nanos)) :
        mo \in {2, 12}, h \in {0, 23, 24}, mi \in {0, 59, 60}, s \in {0, 59, 61},
        fr \in Fractions}

\* strings of neither grammar: a date of the wrong length, ten characters
\* that are no date, a timestamp cut short, without its T or with a tail
MalformedDateTexts ==
    {<<"2", "0", "2", "0", "-", "1", "-", "1">>,
     <<"1">> \o DateText(2020, 1, 1),
     <<"2", "0", "2", "0", "/", "0", "1", "/", "0", "1">>,
     <<"2", "0", "2", "0", "-", "0", "1", "-", "0", "x">>,
     <<"2", "0", "2", "0", "0", "1", "0", "1", "T", "0">>,
     DateText(2020, 1, 1) \o <<"T", "1", "0", ":", "0", "0">>,
     DateText(2020, 1, 1) \o <<"1", "0", ":", "0", "0", ":", "0", "0">>,
     DateText(2020, 1, 1) \o <<"T">> \o TimeText(10, 0, 0) \o <<"Z">>,
     DateText(2020, 1, 1) \o <<"T">> \o TimeText(10, 0, 0) \o <<".">>,
     <<>>}
MalformedDateInputs ==
    {ValueInput("nodate", "DateTime", Some(s), NoFields) : s \in MalformedDateTexts}

\* the fractions of a duration: those of up to nine digits, and two of ten
\* digits with the nanoseconds their first nine digits stand for
DurationFractions ==
    Fractions
    \cup {[txt |-> <<".", "9", "9", "9", "9", "9", "9", "9", "9", "9", "9">>,
           nanos |-> 999999999]}

\* P T [nH] [nM] [n[.f]S]: has lists the fields that are written
DurationText(has, h, mi, s, fr) ==
    <<"P", "T">>
    \o (IF "H" \in has THEN ToDec(h) \o <<"H">> ELSE <<>>)
    \o (IF "M" \in has THEN ToDec(mi) \o <<"M">> ELSE <<>>)
    \o (IF "S" \in has THEN ToDec(s) \o fr.txt \o <<"S">> ELSE <<>>)

Absent(has, k, n) == IF k \in has THEN n ELSE 0

DurationInputs ==
    {ValueInput("duration", "TimeDuration",
                Some(DurationText(has, h, mi, s, fr)),
                [Fields(0, 0, 0, Absent(has, "H", h), Absent(has, "M", mi),
                        Absent(has, "S", s), IF "S" \in has THEN fr.nanos ELSE 0)
                    EXCEPT !.has = has]) :
        has \in SUBSET {"H", "M", "S"}, h \in {1, 12}, mi \in {0, 30}, s \in {0, 5},
        fr \in DurationFractions}

BooleanTexts ==
    {<<"t", "r", "u", "e">>, <<"f", "a", "l", "s", "e">>, <<"T", "R", "U", "E">>,
     <<"T", "r", "u", "e">>, <<"t", "r", "u">>, <<"t", "r", "u", "e", " ">>,
     <<" ", "t", "r", "u", "e">>, <<"1">>, <<"0">>, <<"y", "e", "s">>, <<>>}
BooleanInputs ==
    {ValueInput("boolean", "Boolean", Some(s),
                [NoFields EXCEPT !.istrue = (s = <<"t", "r", "u", "e">>)]) :
        s \in BooleanTexts}

\* a declared type and no value attribute
NoValueInputs ==
    {ValueInput("novalue", ty, None, NoFields) :
        ty \in {"Number", "Percentage", "Currency", "DateTime", "TimeDuration", "Boolean"}}

\* every combination of no type or a type without a grammar of its own, a
\* value attribute, text content and a currency code, each present or absent
PlainInputs ==
    {[ValueInput("plain", ty, v, NoFields)
        EXCEPT !.typed = (ty # ""), !.cell_content = c, !.cell_currency = cu] :
        ty \in {"", "Empty", "Text", "Number", "Percentage", "Currency"},
        v \in {None, Some(<<"1", ".", "5">>), Some(Unparsable)},
        c \in {None, Some("A")},
        cu \in {None, Some("EUR")}}

ValueInputs ==
    DateInputs \cup TimestampInputs \cup MalformedDateInputs \cup DurationInputs
    \cup BooleanInputs \cup NoValueInputs \cup PlainInputs

\* the declared type of the input: None when the cell declares none
TypeOf(i) == IF i.typed THEN Some(i.value_type) ELSE None

InitValue ==
    /\ pc = "value"
    /\ inp \in ValueInputs
    /\ out = <<>>
    /\ book = <<>>
    /\ sheet = SheetNew
    /\ tcol = 0
    /\ row = 0
    /\ col = 0
    /\ row_repeat = 1
    /\ row_style = None
    /\ col_range_from = 0
    /\ row_range_from = 0
    /\ cur = NoCell
    /\ err = None
    /\ last = NoEvent
    /\ nev = 0
    /\ NoStyles
    /\ dump_xml = FALSE
    /\ printed = 0
    /\ at_eof = FALSE
    /\ wb = <<>>
    /\ draft = SheetNew
    /\ nops = 0
    /\ stream = <<>>

\* parse_value(value_type, cell_value, cell_content, cell_currency, row, col)
Decode(ty) ==
    /\ pc = "value"
    /\ inp.value_type = ty
    /\ \E o \in OverflowOutcomes(TypeOf(inp), inp.cell_value) :
          IF o = "panic"
          THEN pc' = "panic" /\ out' = out
          ELSE /\ pc' = "decoded"
               /\ out' = parse_value(TypeOf(inp), inp.cell_value, inp.cell_content,
                                     inp.cell_currency, inp.row, inp.col)
    /\ UNCHANGED <<book, sheet, cur, err, last, nev, inp>>
    /\ UNCHANGED rtVars
    /\ UNCHANGED contentLocals
    /\ UNCHANGED styleVars
    /\ UNCHANGED ioVars

DecodeDateTime ==
    /\ IsSome(inp.cell_value)
    /\ Decode("DateTime")

DecodeTimeDuration ==
    /\ IsSome(inp.cell_value)
    /\ Decode("TimeDuration")

DecodeBoolean ==
    /\ IsSome(inp.cell_value)
    /\ Decode("Boolean")

DecodeNoValue ==
    /\ ~IsSome(inp.cell_value)
    /\ \E ty \in {"", "Empty", "Text", "Number", "Percentage", "Currency", "DateTime",
                  "TimeDuration", "Boolean"} :
          Decode(ty)

DecodePlain ==
    /\ IsSome(inp.cell_value)
    /\ \E ty \in {"", "Empty", "Text", "Number", "Percentage", "Currency"} : Decode(ty)

NextValue ==
    DecodeDateTime \/ DecodeTimeDuration \/ DecodeBoolean \/ DecodeNoValue \/ DecodePlain

SpecValue == InitValue /\ [][NextValue]_vars

----------------------------------------------------------------------------
(* The round trip: a WorkBook built by set_value and the span setters,     *)
(* written by write_ods and read back by the reader above.  The Sheet      *)
(* mutators and the writer are the mirror image of the reader: a cell is   *)
(* written with the attributes and text the reader takes its fields from,  *)
(* and an address under another cell's span is written as an empty         *)
(* covered-table-cell.                                                     *)

Cells == (0..1) \X (0..1)
Texts == {"A", "B"}

\* Sheet::set_value(row, col, value)
set_value(sh, a, v) ==
    add_cell(sh, a[1], a[2],
             IF a \in DOMAIN sh.data THEN [sh.data[a] EXCEPT !.value = v]
             ELSE [SCellNew EXCEPT !.value = v])
\* SCell::set_row_span, SCell::set_col_span on a cell the sheet holds
set_row_span(sh, a, n) == [sh EXCEPT !.data[a].span[1] = n]
set_col_span(sh, a, n) == [sh EXCEPT !.data[a].span[2] = n]

\* the cell at a spans over b
Covers(sh, a, b) ==
    /\ a # b
    /\ a[1] <= b[1] /\ b[1] < a[1] + sh.data[a].span[1]
    /\ a[2] <= b[2] /\ b[2] < a[2] + sh.data[a].span[2]
Covered(sh, b) == \E a \in DOMAIN sh.data : Covers(sh, a, b)

SetMax(S) == CHOOSE x \in S : \A y \in S : y <= x
LastRow(sh) == SetMax({a[1] + sh.data[a].span[1] - 1 : a \in DOMAIN sh.data})
LastCol(sh) == SetMax({a[2] + sh.data[a].span[2] - 1 : a \in DOMAIN sh.data})

SpanAttrs(cell) ==
    (IF cell.span[1] > 1 THEN "table:number-rows-spanned" :> ToDec(cell.span[1]) ELSE <<>>)
    @@ (IF cell.span[2] > 1 THEN "table:number-columns-spanned" :> ToDec(cell.span[2])
        ELSE <<>>)

\* the events of one cell of the grid
write_cell(sh, a) ==
    IF Covered(sh, a) THEN <<Ev("Empty", "table:covered-table-cell", <<>>)>>
    ELSE IF a \in DOMAIN sh.data
    THEN <<Ev("Start", "table:table-cell",
              "office:value-type" :> "string" @@ SpanAttrs(sh.data[a])),
           Ev("Start", "text:p", <<>>),
           TextEv(sh.data[a].value.s),
           Ev("End", "text:p", <<>>),
           Ev("End", "table:table-cell", <<>>)>>
    ELSE <<Ev("Empty", "table:table-cell", <<>>)>>

RECURSIVE write_cells(_, _, _)
write_cells(sh, r, c) ==
    IF c > LastCol(sh) THEN <<>>
    ELSE write_cell(sh, <<r, c>>) \o write_cells(sh, r, c + 1)

RECURSIVE write_rows(_, _)
write_rows(sh, r) ==
    IF r > LastRow(sh) THEN <<>>
    ELSE <<Ev("Start", "table:table-row", <<>>)>> \o write_cells(sh, r, 0)
         \o <<Ev("End", "table:table-row", <<>>)>> \o write_rows(sh, r + 1)

write_sheet(sh) ==
    <<Ev("Start", "table:table", <<>>)>>
    \o (IF sh.data = <<>> THEN <<>> ELSE write_rows(sh, 0))
    \o <<Ev("End", "table:table", <<>>)>>

RECURSIVE write_sheets(_)
write_sheets(sheets) ==
    IF sheets = <<>> THEN <<>> ELSE write_sheet(Head(sheets)) \o write_sheets(Tail(sheets))

\* content.xml up to its end of input, then the end of input of styles.xml
write_ods(sheets) == write_sheets(sheets) \o <<EofEv, EofEv>>

InitRT ==
    /\ pc = "build"
    /\ wb = <<>>
    /\ draft = SheetNew
    /\ nops = 0
    /\ stream = <<>>
    /\ book = <<>>
    /\ sheet = SheetNew
    /\ tcol = 0
    /\ row = 0
    /\ col = 0
    /\ row_repeat = 1
    /\ row_style = None
    /\ col_range_from = 0
    /\ row_range_from = 0
    /\ cur = NoCell
    /\ err = None
    /\ last = NoEvent
    /\ nev = 0
    /\ NoStyles
    /\ dump_xml = FALSE
    /\ printed = 0
    /\ at_eof = FALSE
    /\ inp = <<>>
    /\ out = <<>>

Mutate(sh) ==
    /\ nops < MaxOps
    /\ draft' = sh
    /\ nops' = nops + 1
    /\ UNCHANGED <<pc, book, sheet, cur, err, last, nev, wb, stream, inp, out>>
    /\ UNCHANGED contentLocals
    /\ UNCHANGED styleVars
    /\ UNCHANGED ioVars

SetValue ==
    /\ pc = "build"
    /\ \E a \in Cells, v \in Texts : Mutate(set_value(draft, a, Text(v)))

SetRowSpan ==
    /\ pc = "build"
    /\ \E a \in DOMAIN draft.data : Mutate(set_row_span(draft, a, 2))

SetColSpan ==
    /\ pc = "build"
    /\ \E a \in DOMAIN draft.data : Mutate(set_col_span(draft, a, 2))

PushSheet ==
    /\ pc = "build"
    /\ Len(wb) < MaxSheets
    /\ wb' = push_sheet(wb, draft)
    /\ draft' = SheetNew
    /\ UNCHANGED <<pc, book, sheet, cur, err, last, nev, nops, stream, inp, out>>
    /\ UNCHANGED contentLocals
    /\ UNCHANGED styleVars
    /\ UNCHANGED ioVars

WriteOds ==
    /\ pc = "build"
    /\ draft = SheetNew
    /\ stream' = write_ods(wb)
    /\ pc' = "content"
    /\ UNCHANGED <<book, sheet, cur, err, last, nev, wb, draft, nops, inp, out>>
    /\ UNCHANGED contentLocals
    /\ UNCHANGED styleVars
    /\ UNCHANGED ioVars

\* read_ods: the reader takes the next event of the written file
ReadEvent ==
    /\ pc \in {"content", "cell", "styles"}
    /\ stream # <<>>
    /\ Consume(Head(stream))
    /\ stream' = Tail(stream)
    /\ UNCHANGED <<wb, draft, nops, inp, out>>

NextRT == SetValue \/ SetRowSpan \/ SetColSpan \/ PushSheet \/ WriteOds \/ ReadEvent

SpecRT == InitRT /\ [][NextRT]_vars

----------------------------------------------------------------------------
(* TextVec::is_valid (src/src/text.rs) on its own.                         *)

\* TextElem: Start and Empty carry a TextTag, End a tag name, Text a string
TextElem(kind, s) == [kind |-> kind, tag |-> s]

\* a check that takes any End for the end of the innermost open tag
is_valid_any_end(vec, open_tag, close_tag) ==
    [res |-> \A j \in 1..Len(vec) :
                vec[j].kind = "End"
                => Cardinality({i \in 1..j : vec[i].kind = "End"})
                   <= Cardinality({i \in 1..j : vec[i].kind = "Start"}),
     vec |-> vec, open_tag |-> open_tag, close_tag |-> close_tag]

\* the loop of is_valid from element i on, tags being the stack of open tags
RECURSIVE IsValidLoop(_, _, _, _, _)
IsValidLoop(vec, i, tags, open_tag, close_tag) ==
    IF i > Len(vec)
    THEN [res |-> TRUE, vec |-> vec, open_tag |-> open_tag, close_tag |-> close_tag]
    ELSE CASE vec[i].kind = "Start" ->
                IsValidLoop(vec, i + 1, Append(tags, vec[i].tag), open_tag, close_tag)
           [] vec[i].kind = "End" ->
                IF tags = <<>>
                THEN [res |-> FALSE, vec |-> vec, open_tag |-> open_tag,
                      close_tag |-> close_tag]
                ELSE IF vec[i].tag # tags[Len(tags)]
                     THEN [res |-> FALSE, vec |-> vec, open_tag |-> tags[Len(tags)],
                           close_tag |-> vec[i].tag]
                     ELSE IsValidLoop(vec, i + 1, SubSeq(tags, 1, Len(tags) - 1),
                                      open_tag, close_tag)
           [] OTHER -> IsValidLoop(vec, i + 1, tags, open_tag, close_tag)

\* a check that reports the two names of a mismatch the other way round
is_valid_swapped(vec, open_tag, close_tag) ==
    [IsValidLoop(vec, 1, <<>>, open_tag, close_tag) EXCEPT
        !.open_tag = IsValidLoop(vec, 1, <<>>, open_tag, close_tag).close_tag,
        !.close_tag = IsValidLoop(vec, 1, <<>>, open_tag, close_tag).open_tag]

\* is_valid(&self, open_tag, close_tag): the result, with the TextVec and the
\* two out-parameters as they are after the call
is_valid(vec, open_tag, close_tag) == IsValidLoop(vec, 1, <<>>, open_tag, close_tag)

\* what the caller's two Strings hold before the call
OutParameters == {"", "u"}

TextElems ==
    {TextElem(k, n) : k \in {"Start", "End"}, n \in {"b", "i"}}
    \cup {TextElem("Empty", "b"), TextElem("Text", "x")}

\* the sequences of up to n elements
RECURSIVE TextVecs(_)
TextVecs(n) ==
    IF n = 0 THEN {<<>>}
    ELSE TextVecs(n - 1)
         \cup {Append(v, e) : v \in {w \in TextVecs(n - 1) : Len(w) = n - 1}, e \in TextElems}

InitText ==
    /\ pc = "text"
    /\ inp \in {[vec |-> v, open_tag |-> o, close_tag |-> o] :
                  v \in TextVecs(MaxLen), o \in OutParameters}
    /\ out = <<>>
    /\ book = <<>>
    /\ sheet = SheetNew
    /\ tcol = 0
    /\ row = 0
    /\ col = 0
    /\ row_repeat = 1
    /\ row_style = None
    /\ col_range_from = 0
    /\ row_range_from = 0
    /\ cur = NoCell
    /\ err = None
    /\ last = NoEvent
    /\ nev = 0
    /\ NoStyles
    /\ dump_xml = FALSE
    /\ printed = 0
    /\ at_eof = FALSE
    /\ wb = <<>>
    /\ draft = SheetNew
    /\ nops = 0
    /\ stream = <<>>

IsValid ==
    /\ pc = "text"
    /\ pc' = "checked"
    /\ out' = is_valid(inp.vec, inp.open_tag, inp.close_tag)
    /\ UNCHANGED <<book, sheet, cur, err, last, nev, inp>>
    /\ UNCHANGED rtVars
    /\ UNCHANGED contentLocals
    /\ UNCHANGED styleVars
    /\ UNCHANGED ioVars

NextText == IsValid

SpecText == InitText /\ [][NextText]_vars

----------------------------------------------------------------------------
(* Properties of the reader under Spec.                                    *)

\* the step consumed an event of the given kind and name while the loop at
\* `at` held the reader
Took(at, kind, name) ==
    /\ nev' = nev + 1
    /\ pc = at
    /\ last'.kind = kind
    /\ last'.name = name

\* the repeat count a tag declares, read off its decimal digits; 1 when the
\* attribute is absent
Declared(ev, k) ==
    IF HasAttr(ev, k) THEN CHOOSE n \in 0..MaxRepeat : ToDec(n) = ev.attrs[k] ELSE 1
Declares(ev, k) == HasAttr(ev, k) => \E n \in 0..MaxRepeat : ToDec(n) = ev.attrs[k]

\* the map after the step is the map before it with the keys K set to v (when
\* v is some value) and every other key as it was
MapUpdated(before, after, K, v) ==
    \A k \in DOMAIN before \cup DOMAIN after \cup K :
        MapGet(after, k) = IF k \in K /\ IsSome(v) THEN v ELSE MapGet(before, k)

\* C3: a table:table-column element with repeat count N (default 1), taken
\* when the column counter is t, gives the declared column style and default
\* cell style, each only if present, to exactly the columns t..t+N-1, leaves
\* the styles of every other column as they were, and moves the counter to t+N.
C3_ColumnRepeatExpansion ==
    [][(Took("content", "Empty", "table:table-column")
            /\ Declares(last', "table:number-columns-repeated"))
        => LET N == Declared(last', "table:number-columns-repeated")
           IN  /\ tcol' = tcol + N
               /\ MapUpdated(sheet.col_style, sheet'.col_style, tcol..(tcol + N - 1),
                             Attr(last', "table:style-name"))
               /\ MapUpdated(sheet.col_cell_style, sheet'.col_cell_style,
                             tcol..(tcol + N - 1),
                             Attr(last', "table:default-cell-style-name"))
               /\ sheet'.data = sheet.data
               /\ pc' = "content"]_vars

\* a repeated, styled column was read after a plain one: the columns
\* 1..MaxRepeat carry the styles and column 0 carries none
C3_Witness ==
    /\ last.name = "table:table-column"
    /\ Attr(last, "table:number-columns-repeated") = Some(ToDec(MaxRepeat))
    /\ Attr(last, "table:style-name") = Some("co1")
    /\ tcol = 1 + MaxRepeat
    /\ DOMAIN sheet.col_style = 1..MaxRepeat
    /\ DOMAIN sheet.col_cell_style = 1..MaxRepeat
    /\ \A c \in 1..MaxRepeat : sheet.col_style[c] = "co1" /\ sheet.col_cell_style[c] = "ce1"

\* C4: the open tag of a table-row sets the pending repeat count to its N
\* (1 when the attribute is absent); the close tag advances the row cursor by
\* exactly the pending count, resets the column cursor to 0 and returns the
\* pending count to 1; no other event changes the pending count.
C4_RowRepeat ==
    [][/\ (Took("content", "Start", "table:table-row")
              /\ Declares(last', "table:number-rows-repeated"))
          => /\ row_repeat' = Declared(last', "table:number-rows-repeated")
             /\ row' = row
       /\ Took("content", "End", "table:table-row")
          => /\ row' = row + row_repeat
             /\ col' = 0
             /\ row_repeat' = 1
       /\ (nev' = nev + 1 /\ last'.name # "table:table-row")
          => row_repeat' = row_repeat]_vars

\* a row repeated MaxRepeat times and then a row without the attribute were
\* closed: the cursor stands at MaxRepeat + 1
C4_Witness ==
    /\ last.kind = "End"
    /\ last.name = "table:table-row"
    /\ nev = 4
    /\ row = MaxRepeat + 1
    /\ col = 0
    /\ row_repeat = 1

\* the empty-tag cell carries none of formula, style-name, rows-spanned,
\* columns-spanned
Bare(ev) ==
    {"table:formula", "table:style-name", "table:number-rows-spanned",
     "table:number-columns-spanned"} \cap DOMAIN ev.attrs = {}

TookEmptyCell ==
    /\ nev' = nev + 1
    /\ pc = "content"
    /\ last'.kind = "Empty"
    /\ last'.name \in CellNames

\* C5: an empty-tag table-cell or covered-table-cell with none of formula,
\* style-name, rows-spanned, columns-spanned and repeat count N advances the
\* column cursor by N and leaves the cell map as it was; with one of those
\* attributes present a cell is stored at the cursor instead.
C5_EmptyCellEconomy ==
    [][(TookEmptyCell /\ Declares(last', "table:number-columns-repeated")
            /\ pc' # "error")
        => IF Bare(last')
           THEN /\ col' = col + Declared(last', "table:number-columns-repeated")
                /\ sheet' = sheet
           ELSE /\ <<row, col>> \in DOMAIN sheet'.data
                /\ col' > col]_vars

\* a run of MaxRepeat bare cells was skipped and nothing is stored
C5_Witness ==
    /\ last.kind = "Empty"
    /\ last.name = "table:covered-table-cell"
    /\ Attr(last, "table:number-columns-repeated") = Some(ToDec(MaxRepeat))
    /\ Bare(last)
    /\ col = 2 * MaxRepeat
    /\ sheet.data = <<>>

TookClose ==
    /\ nev' = nev + 1
    /\ pc = "cell"
    /\ last'.kind = "End"
    /\ last'.name = cur.tag_name

\* the cells (row, c)..(row, c+N-1) hold one and the same cell with the
\* given style, formula and span, and every other address is as it was
StoredRun(N, style, formula, span) ==
    /\ col' = col + N
    /\ \A k \in col..(col + N - 1) :
          /\ <<row, k>> \in DOMAIN sheet'.data
          /\ sheet'.data[<<row, k>>] = sheet'.data[<<row, col>>]
          /\ sheet'.data[<<row, k>>].style = style
          /\ sheet'.data[<<row, k>>].formula = formula
          /\ sheet'.data[<<row, k>>].span = span
    /\ \A a \in (DOMAIN sheet.data \cup DOMAIN sheet'.data)
                    \ {<<row, k>> : k \in col..(col + N - 1)} :
          MapGet(sheet'.data, a) = MapGet(sheet.data, a)

\* the span a tag declares, (1, 1) by default
DeclaredSpan(ev) ==
    <<IF HasAttr(ev, "table:number-rows-spanned") THEN 2 ELSE 1,
      IF HasAttr(ev, "table:number-columns-spanned") THEN 2 ELSE 1>>

\* C6: the open tag of a cell records its repeat count N, style, formula and
\* span; when the cell with N >= 1 is closed at row r with the column cursor
\* at c and its value decodes, exactly N identical cells with that style,
\* formula and span are stored at (r,c)..(r,c+N-1), every other address is
\* left alone and the column cursor becomes c+N; the same holds for an
\* empty-tag cell that carries a formula, a style or a span.
C6_CellRepeat ==
    [][/\ (nev' = nev + 1 /\ pc = "content" /\ pc' = "cell")
          => /\ last'.kind = "Start"
             /\ cur'.tag_name = last'.name
             /\ cur'.cell_repeat = Declared(last', "table:number-columns-repeated")
             /\ cur'.cell.style = Attr(last', "table:style-name")
             /\ cur'.cell.formula = Attr(last', "table:formula")
             /\ cur'.cell.span = DeclaredSpan(last')
       /\ (TookClose /\ cur.cell_repeat >= 1 /\ pc' # "error")
          => /\ StoredRun(cur.cell_repeat, cur.cell.style, cur.cell.formula, cur.cell.span)
             /\ pc' = "content"
       /\ (TookEmptyCell /\ ~Bare(last') /\ pc' # "error"
              /\ Declared(last', "table:number-columns-repeated") >= 1)
          => /\ StoredRun(Declared(last', "table:number-columns-repeated"),
                          Attr(last', "table:style-name"), Attr(last', "table:formula"),
                          DeclaredSpan(last'))
             /\ sheet'.data[<<row, col>>].value = Empty]_vars

\* a text cell repeated MaxRepeat times was closed behind a run of skipped
\* cells: MaxRepeat equal cells stand at columns MaxRepeat..2*MaxRepeat-1
C6_Witness ==
    /\ last.kind = "End"
    /\ last.name = "table:table-cell"
    /\ pc = "content"
    /\ col = 2 * MaxRepeat
    /\ DOMAIN sheet.data = {<<0, k>> : k \in MaxRepeat..(2 * MaxRepeat - 1)}
    /\ \A a \in DOMAIN sheet.data : sheet.data[a].value = Text("A")

\* the declared type of the open cell needs a value the tag did not give
CurLacksValue ==
    /\ IsSome(cur.value_type)
    /\ Get(cur.value_type) \in {"Number", "Percentage", "Currency", "DateTime", "TimeDuration"}
    /\ \/ ~IsSome(cur.cell_value)
       \/ Get(cur.value_type) = "Currency" /\ ~IsSome(cur.cell_currency)

\* the same of an empty-tag cell, read off its attributes
TagLacksValue(ev) ==
    /\ HasAttr(ev, "office:value-type")
    /\ ev.attrs["office:value-type"] \in {"float", "percentage", "currency", "date", "time"}
    /\ \/ ValueAttrs \cap DOMAIN ev.attrs = {}
       \/ ev.attrs["office:value-type"] = "currency" /\ ~HasAttr(ev, "office:currency")

\* the read failed with the Ods error that names the address the cell
\* starts at, stored nothing and returns no WorkBook
FailsNamingCell ==
    /\ pc' = "error"
    /\ IsSome(err')
    /\ Get(err').kind = "Ods"
    /\ Get(err').row = row
    /\ Get(err').col = col
    /\ sheet' = sheet
    /\ book' = book

\* C7 as stated: every cell element, in empty-tag or open-tag form, whose
\* declared type is number, percentage, currency, date or time-duration and
\* which has no value attribute (or, for currency, no currency code) fails the
\* read with the Ods error naming its address.
C7_AsStated ==
    [][/\ (TookClose /\ CurLacksValue) => FailsNamingCell
       /\ (TookEmptyCell /\ TagLacksValue(last')) => FailsNamingCell]_vars

\* C7: an open-tag cell that reaches its close tag with a declared type of
\* number, percentage, currency, date or time-duration and no value attribute,
\* or with type currency, a value that parses as a float and no currency
\* code, fails the read with the Ods error naming the address the cell starts
\* at; nothing is stored and the reader never returns a WorkBook.
C7_MissingValue ==
    [][/\ (TookClose /\ CurLacksValue
              /\ (IsSome(cur.cell_value) => ParseF64(Get(cur.cell_value)).ok))
          => FailsNamingCell
       /\ pc = "error" => pc' = "error"]_vars

\* a number cell without a value was closed behind a run of skipped cells:
\* the error names row 0, column MaxRepeat
C7_Witness ==
    /\ pc = "error"
    /\ last.kind = "End"
    /\ err = Some(OdsNoValue("number", 0, MaxRepeat))
    /\ sheet.data = <<>>

\* the ValueType each known office:value-type token stands for
KnownValueType ==
    "string" :> "Text" @@ "float" :> "Number" @@ "percentage" :> "Percentage"
    @@ "date" :> "DateTime" @@ "time" :> "TimeDuration" @@ "boolean" :> "Boolean"
    @@ "currency" :> "Currency"

\* the tag of a cell was taken in the given form, it declares a value type,
\* and its repeat and span attributes parse
TookTypedCell(kind) ==
    /\ nev' = nev + 1
    /\ pc = "content"
    /\ last'.kind = kind
    /\ IsCellName(last'.name)
    /\ HasAttr(last', "office:value-type")
    /\ ReadCellRepeat(last').ok
    /\ ReadSpan(last').ok

\* the read failed with the Ods error that carries the raw token, and stored
\* nothing
FailsNamingToken(token) ==
    /\ pc' = "error"
    /\ err' = Some([kind |-> "Ods", what |-> "Unknown cell-type", token |-> token])
    /\ sheet' = sheet
    /\ book' = book

\* C11 as stated: every cell element, in open-tag or empty-tag form, whose
\* office:value-type token is none of the seven known ones fails the read
\* with the Ods error that carries the raw token.
C11_AsStated ==
    [][\A kind \in {"Start", "Empty"} :
          (TookTypedCell(kind) /\ last'.attrs["office:value-type"] \notin DOMAIN KnownValueType)
          => FailsNamingToken(last'.attrs["office:value-type"])]_vars

\* C11: the open tag of a cell whose office:value-type token is none of
\* string, float, percentage, date, time, boolean, currency fails the read
\* with the Ods error that carries the raw token, before the sub-parser reads
\* any content and before any cell of the element is stored; each of the
\* seven known tokens opens the cell with the type Text, Number, Percentage,
\* DateTime, TimeDuration, Boolean or Currency.  A cell in empty-tag form
\* does not read the token: it never fails on it.
C11_UnknownValueType ==
    [][/\ TookTypedCell("Start")
          => LET token == last'.attrs["office:value-type"]
             IN  IF token \in DOMAIN KnownValueType
                 THEN /\ pc' = "cell"
                      /\ cur'.value_type = Some(KnownValueType[token])
                      /\ err' = None
                 ELSE FailsNamingToken(token)
       /\ TookTypedCell("Empty") => pc' = "content" /\ err' = None]_vars

\* a cell of type "void" was opened in a row that already holds a cell: the
\* read failed naming "void" and the sheet holds what it held
C11_Witness ==
    /\ pc = "error"
    /\ last.kind = "Start"
    /\ Attr(last, "office:value-type") = Some("void")
    /\ err = Some([kind |-> "Ods", what |-> "Unknown cell-type", token |-> "void"])
    /\ sheet.data # <<>>

\* the step appended the sheet under construction to the WorkBook, set the
\* cursors to 0 and made a fresh Sheet current
Finalized ==
    /\ book' = Append(book, sheet)
    /\ sheet' = SheetNew
    /\ row' = 0
    /\ col' = 0

\* C13 as stated: every closing table:table tag that is read, in whichever
\* loop, appends the current sheet, and nothing else changes the sheets of
\* the WorkBook.
C13_AsStated ==
    [][IF nev' = nev + 1 /\ last'.kind = "End" /\ last'.name = "table:table"
       THEN Finalized
       ELSE book' = book]_vars

\* C13: a Sheet is appended to the WorkBook exactly when read_content's loop
\* takes a closing table:table tag: that step appends the sheet under
\* construction behind the sheets already there, sets row and col to 0 and
\* makes a fresh empty Sheet current, and no other step, a closing table tag
\* read while a cell is open included, changes the sheets of the WorkBook.
C13_SheetFinalization ==
    [][IF Took("content", "End", "table:table")
       THEN Finalized
       ELSE book' = book]_vars

\* two tables were closed one after the other: the WorkBook holds the named
\* one first and the unnamed one second
C13_Witness ==
    /\ Len(book) = 2
    /\ book[1].name = Some("T")
    /\ book[2].name = None
    /\ last = Ev("End", "table:table", <<>>)
    /\ sheet = SheetNew
    /\ row = 0
    /\ col = 0

\* C16 as stated: when the end of input arrives inside a table, before its
\* closing tag, the WorkBook that is returned holds that table with the name,
\* the cells and the column styles accumulated so far.
C16_TruncationKeeps ==
    (pc \in {"styles", "done"} /\ sheet # SheetNew)
    => \E i \in 1..Len(book) : book[i] = sheet

\* the text gathered so far, as a string
Gathered(c) == IF IsSome(c) THEN Get(c) ELSE ""

\* C27: the text of an open cell is its text events in their order, with a
\* newline at every text:p start tag but the one that starts the content,
\* one space for a text:s tag whatever its count, and nothing for any
\* other tag
C27_TextAccumulation ==
    [][(nev' = nev + 1 /\ pc = "cell" /\ pc' = "cell") =>
          cur'.cell_content =
              CASE last'.kind = "Text" -> Some(Gathered(cur.cell_content) \o last'.text)
                [] last'.kind = "Start" /\ last'.name = "text:p" ->
                      IF IsSome(cur.cell_content)
                      THEN Some(Get(cur.cell_content) \o "\n") ELSE Some("")
                [] last'.kind = "Empty" /\ last'.name = "text:s" ->
                      Some(Gathered(cur.cell_content) \o " ")
                [] OTHER -> cur.cell_content]_vars

\* a text, a counted space and a second text were read in an open cell
C27_Witness ==
    /\ pc = "cell"
    /\ last.kind = "Text"
    /\ cur.cell_content = Some("A A")

----------------------------------------------------------------------------
(* Properties of parse_value under SpecValue.                              *)

\* the days of the months of the Gregorian calendar
MonthLengths == <<31, 28, 31, 30, 31, 30, 31, 31, 30, 31, 30, 31>>
LeapYear(y) == IF y % 100 = 0 THEN y % 400 = 0 ELSE y % 4 = 0
OnCalendar(f) ==
    /\ f.mo >= 1
    /\ f.mo <= 12
    /\ f.d >= 1
    /\ f.d <= (IF f.mo = 2 /\ LeapYear(f.y) THEN 29 ELSE MonthLengths[f.mo])
OnClock(f) == f.h <= 23 /\ f.mi <= 59 /\ f.s <= 59

DecodedAs(ty) ==
    /\ pc = "decoded"
    /\ inp.value_type = ty
    /\ IsSome(inp.cell_value)

C9_DurationDecoding ==
    DecodedAs("TimeDuration")
    => out = Ok(TimeDuration(W(inp.f.h * 3600 + inp.f.mi * 60 + inp.f.s), inp.f.nanos))

\* C10: a cell of type boolean with a value string decodes to Boolean(true)
\* exactly when the string is "true" and to Boolean(false) for every other
\* string, never failing on the string; without a value string the decoding
\* is an error.
C10_BooleanDecoding ==
    (pc = "decoded" /\ inp.value_type = "Boolean")
    => IF IsSome(inp.cell_value)
       THEN out = Ok(Boolean(inp.f.istrue))
       ELSE ~out.ok /\ out.err.kind = "Ods"

\* the string "false" decoded to Boolean(false)
C10_Witness ==
    /\ DecodedAs("Boolean")
    /\ inp.cell_value = Some(<<"f", "a", "l", "s", "e">>)
    /\ out = Ok(Boolean(FALSE))

\* what parse_value may return: one Value or one error
ValueKinds ==
    {"Empty", "Text", "Number", "Percentage", "Currency", "Boolean", "DateTime",
     "TimeDuration"}
IsResult(r) ==
    /\ DOMAIN r \in {{"ok", "val"}, {"ok", "err"}}
    /\ r.ok => r.val.t \in ValueKinds
    /\ ~r.ok => r.err.kind \in {"Ods", "ParseFloat", "Chrono"}

\* C12: parse_value is total: for every combination of a declared type or
\* none, a value string or none, text content or none and a currency code or
\* none it returns one Value or one error; without a declared type the result
\* is Empty whatever else is present, and for type string it is Text of the
\* content, Text("") without content, whatever the value attribute.
C12_TotalDecoding ==
    /\ pc \in {"value", "decoded"}
    /\ pc = "decoded"
       => /\ IsResult(out)
          /\ ~inp.typed => out = Ok(Empty)
          /\ (inp.typed /\ inp.value_type = "Text")
             => out = Ok(Text(IF IsSome(inp.cell_content) THEN Get(inp.cell_content)
                              ELSE ""))

----------------------------------------------------------------------------
(* Properties of the round trip under SpecRT.                              *)

\* what a sheet reports at an address: Value::Empty and span (1, 1) where it
\* holds no cell
ValueAt(sh, a) == IF a \in DOMAIN sh.data THEN sh.data[a].value ELSE Empty
SpanAt(sh, a) == IF a \in DOMAIN sh.data THEN sh.data[a].span ELSE <<1, 1>>

\* the addresses either sheet holds
Held(i) == DOMAIN wb[i].data \cup DOMAIN book[i].data

\* the file was written and read back to its end
ReadBack == pc = "done" /\ stream = <<>>

----------------------------------------------------------------------------
(* Properties of TextVec::is_valid under SpecText.                         *)

\* the number of tags open after the first k elements
Depth(vec, k) ==
    Cardinality({i \in 1..k : vec[i].kind = "Start"})
    - Cardinality({i \in 1..k : vec[i].kind = "End"})

\* the End at j closes the most recently unclosed Start, and that Start has
\* its name
ClosesItsStart(vec, j) ==
    /\ Depth(vec, j - 1) >= 1
    /\ LET i == CHOOSE i \in 1..(j - 1) :
                    /\ vec[i].kind = "Start"
                    /\ Depth(vec, i - 1) = Depth(vec, j)
                    /\ \A k \in (i + 1)..(j - 1) :
                          ~(vec[k].kind = "Start" /\ Depth(vec, k - 1) = Depth(vec, j))
       IN  vec[i].tag = vec[j].tag

\* the sequence without its Empty and Text elements
Tags(vec) == SelectSeq(vec, LAMBDA e : e.kind \in {"Start", "End"})

----------------------------------------------------------------------------
(* Properties of the style sub-parsers under SpecStyles.                   *)

\* the WorkBook's collections of style objects differ after the step
Inserts ==
    \/ fonts' # fonts
    \/ styles' # styles
    \/ formats' # formats
    \/ page_layouts' # page_layouts

\* C14: a Style, ValueFormat, PageLayout or FontDecl enters the WorkBook
\* only when a closing tag or an empty tag is read: never when its element
\* has only been opened, and never when the input ends inside it
C14_NoPartialObjects ==
    [][(nev' = nev + 1 /\ Inserts) => last'.kind \in {"End", "Empty"}]_vars

\* C15: at the end of the input every sub-parser returns to its caller
\* without an error, and the caller meets the end of the input in turn, up
\* to read_content and read_styles, which end with success
C15_SoftEndOfInput ==
    [][(nev' = nev + 1 /\ last'.kind = "Eof") =>
          /\ pc' \notin {"error", "panic"}
          /\ err' = None
          /\ pc' = (IF pc = "cell" THEN "content"
                    ELSE IF pc = "content" THEN "styles"
                    ELSE IF pc = "styles" THEN "done"
                    ELSE frames[1].ret)
          /\ pc \notin {"content", "cell", "styles"} => Len(frames') = Len(frames) - 1]_vars

\* the input has ended inside a text composit of a header, read_composit has
\* returned, and read_headerfooter is about to meet the end of the input
C15_Witness ==
    /\ at_eof
    /\ last.kind = "Eof"
    /\ pc = "headerfooter"
    /\ err = None
    /\ frames[1].hf.region_left # <<>>

\* the tags whose attributes the sub-parser at `at` reads
ReadsAttributes(at, ev) ==
    CASE at = "style" -> ev.name \in PropertyGroups
      [] at = "value_format" -> ev.name \in DOMAIN FormatPartTags \cup DOMAIN ContentPartTags
      [] at = "page_layout" -> ev.name = "style:page-layout-properties"
      [] at = "composit" -> TRUE
      [] at = "fonts" -> ev.name = "style:font-face"
      [] at \in {"styles_tag", "auto_styles"} -> ev.name = "style:style"
      [] OTHER -> FALSE

\* an attribute of the tag cannot be parsed, or its value cannot be unescaped
AttributeError(ev) ==
    \/ Malformed \in DOMAIN ev.attrs
    \/ \E k \in DOMAIN ev.attrs : ev.attrs[k] = BadEscape

\* C17: the first error ends the read: no event is taken after it, the
\* error is the one returned, and an attribute in error on a tag whose
\* attributes the sub-parser reads (property groups, format parts, page
\* layout properties and composit tags among them) is such an error
C17_FirstError ==
    [][/\ pc # "error"
       /\ err # None => err' = err
       /\ (/\ nev' = nev + 1
           /\ last'.kind \in {"Start", "Empty"}
           /\ ReadsAttributes(pc, last')
           /\ AttributeError(last')) => (pc' = "error" /\ err' # None)]_vars

\* the tags that the match of the sub-parser at `at` names
Recognises(at, ev) ==
    CASE at = "content" ->
            \/ ev.kind = "Start" /\ ev.name \in
                  {"table:table", "table:table-header-columns", "table:table-header-rows",
                   "table:table-row"} \cup BlockNames
            \/ ev.kind = "End" /\ ev.name \in
                  {"table:table", "table:table-header-columns", "table:table-header-rows",
                   "table:table-row"}
            \/ ev.kind = "Empty" /\ ev.name = "table:table-column"
            \/ ev.kind \in {"Start", "Empty"} /\ IsCellName(ev.name)
      [] at = "cell" ->
            \/ ev.name = "text:p"
            \/ ev.kind # "Empty" /\ ev.name = "text:a"
            \/ ev.kind = "Empty" /\ ev.name = "text:s"
            \/ ev.kind = "End" /\ ev.name = cur.tag_name
      [] at = "styles" -> ev.kind = "Start" /\ ev.name \in BlockNames
      [] at = "fonts" ->
            \/ ev.kind # "End" /\ ev.name = "style:font-face"
            \/ ev.kind = "End" /\ ev.name = "office:font-face-decls"
      [] at = "styles_tag" ->
            \/ ev.kind # "End" /\ ev.name \in {"style:style"} \cup DOMAIN ValueFormatTags
            \/ ev.kind = "End" /\ ev.name = "office:styles"
      [] at = "auto_styles" ->
            \/ ev.kind # "End" /\ ev.name \in
                  {"style:style", "style:page-layout"} \cup DOMAIN ValueFormatTags
            \/ ev.kind = "End" /\ ev.name = "office:automatic-styles"
      [] at = "master_styles" ->
            \/ ev.kind # "End" /\ ev.name = "style:master-page"
            \/ ev.kind = "End" /\ ev.name = "office:master-styles"
      [] at = "style" ->
            \/ ev.kind # "End" /\ ev.name \in PropertyGroups
            \/ ev.kind = "End" /\ ev.name = "style:style"
      [] at = "value_format" ->
            \/ ev.kind # "End" /\ ev.name \in DOMAIN FormatPartTags \cup DOMAIN ContentPartTags
            \/ ev.kind = "End" /\ ev.name \in DOMAIN ValueFormatTags \cup DOMAIN ContentPartTags
      [] at = "page_layout" ->
            \/ ev.kind # "End" /\ ev.name \in
                  {"style:page-layout-properties", "style:header-style", "style:footer-style",
                   "style:header-footer-properties"}
            \/ ev.kind = "End" /\ ev.name \in
                  {"style:page-layout", "style:header-style", "style:footer-style"}
      [] at = "master_page" ->
            \/ ev.kind # "End" /\ ev.name \in DOMAIN HeaderFooterTags
            \/ ev.kind = "End" /\ ev.name = "style:master-page"
      [] at = "headerfooter" ->
            \/ ev.kind # "End" /\ ev.name \in DOMAIN RegionTags
            \/ ev.kind = "End" /\ ev.name = frames[1].end_tag
      [] OTHER -> TRUE

\* C18: a start, empty or end tag that the match of the current sub-parser
\* does not name changes nothing: the cursors, the column counter, the
\* sheet, the object in progress and the WorkBook stay, and no error is raised
C18_UnrecognisedTags ==
    [][(/\ nev' = nev + 1
        /\ last'.kind \in {"Start", "Empty", "End"}
        /\ ~Recognises(pc, last')) =>
          /\ UNCHANGED <<pc, err, book, sheet, cur, frames>>
          /\ UNCHANGED contentLocals
          /\ NoAdd]_vars

\* style:map was read inside a style:style that already holds properties
C18_Witness ==
    /\ pc = "style"
    /\ last = Ev("Start", "style:map", <<>>)
    /\ frames[1].style.prp # <<>>
    /\ err = None

MemberOrigin == IF frames[Len(frames)].ret = "content" THEN "Content" ELSE "Styles"

\* C21: every FontDecl, Style and ValueFormat that enters the WorkBook
\* carries the origin of the archive member it was read from, the later
\* objects of a declaration block as well as the first
C21_OriginPreserved ==
    [][(nev' = nev + 1 /\ frames # <<>>) =>
          /\ Len(fonts') > Len(fonts) => fonts'[Len(fonts')].origin = MemberOrigin
          /\ \A n \in DOMAIN styles' :
                (n \notin DOMAIN styles \/ styles'[n] # styles[n]) =>
                    styles'[n].origin = MemberOrigin
          /\ \A n \in DOMAIN formats' :
                (n \notin DOMAIN formats \/ formats'[n] # formats[n]) =>
                    formats'[n].origin = MemberOrigin]_vars

\* the addresses whose cell entry the step stores or replaces
StoredCells ==
    {a \in DOMAIN sheet'.data : a \notin DOMAIN sheet.data \/ sheet'.data[a] # sheet.data[a]}

\* C22: a span other than (1,1) is stored only on a cell whose own element
\* carried a span attribute, and the close of a table:covered-table-cell
\* element stores no cell entry with a value of its own
C22_SpansOnAnchor ==
    [][/\ TookEmptyCell =>
            \A a \in StoredCells :
                sheet'.data[a].span # <<1, 1>> =>
                    \/ HasAttr(last', "table:number-rows-spanned")
                    \/ HasAttr(last', "table:number-columns-spanned")
       /\ TookClose =>
            \A a \in StoredCells :
                /\ sheet'.data[a].span # <<1, 1>> => sheet'.data[a].span = cur.cell.span
                /\ cur.tag_name = "table:covered-table-cell" =>
                        sheet'.data[a].value = Empty]_vars

----------------------------------------------------------------------------
(* Properties of the cursors under SpecCursor.                             *)

\* a < b on ucells, from their 32 bits read as signed integers
ULess(a, b) == IF (a < 0) = (b < 0) THEN a < b ELSE b < 0

\* C23: the row cursor never decreases but for its reset to 0 at the close
\* of a table, and the column cursor never decreases but for its reset to 0
\* at the close of a row or of a table
C23_CursorMonotone ==
    [][nev' = nev + 1 =>
          /\ row' # row =>
                \/ ULess(row, row')
                \/ row' = 0 /\ Took("content", "End", "table:table")
          /\ col' # col =>
                \/ ULess(col, col')
                \/ /\ col' = 0
                   /\ \/ Took("content", "End", "table:table")
                      \/ Took("content", "End", "table:table-row")]_vars

----------------------------------------------------------------------------
(* Further properties of the style sub-parsers under SpecStyles.           *)

\* the tag a sub-parser was entered on, from the setter its result goes to
EnteredOn(tags, set) == CHOOSE t \in DOMAIN tags : tags[t] = set

\* C24: a header or footer sub-parser, and a region sub-parser, returns to
\* its caller at the end tag of the tag it was entered on, so that the
\* events behind that end tag are read by the caller
C24_ReturnOnOwnEndTag ==
    [][(nev' = nev + 1 /\ last'.kind = "End") =>
          /\ (pc = "headerfooter"
                 /\ last'.name = EnteredOn(HeaderFooterTags, frames[1].set))
             => (pc' = "master_page" /\ Len(frames') = Len(frames) - 1)
          /\ (pc = "composit" /\ frames[1].set # "content"
                 /\ last'.name = EnteredOn(RegionTags, frames[1].set))
             => (pc' = "headerfooter" /\ Len(frames') = Len(frames) - 1)]_vars

\* C25: in a page layout the attributes of style:header-footer-properties
\* go to the header bag only inside a header-style element and to the footer
\* bag only inside a footer-style element, never to both and never to the
\* layout's own bag; a header-style or footer-style in empty-tag form is
\* closed with its tag and puts the tags behind it inside nothing
C25_PageLayoutGating ==
    [][(nev' = nev + 1 /\ pc = "page_layout" /\ pc' = "page_layout") =>
          /\ (last'.kind = "Empty"
                 /\ last'.name \in {"style:header-style", "style:footer-style"})
             => /\ frames'[1].header_style = frames[1].header_style
                /\ frames'[1].footer_style = frames[1].footer_style
          /\ (last'.kind \in {"Start", "Empty"}
                 /\ last'.name = "style:header-footer-properties")
             => /\ frames'[1].pl.prp = frames[1].pl.prp
                /\ frames'[1].pl.header_prp # frames[1].pl.header_prp
                      => frames[1].header_style
                /\ frames'[1].pl.footer_prp # frames[1].pl.footer_prp
                      => frames[1].footer_style
                /\ \/ frames'[1].pl.header_prp = frames[1].pl.header_prp
                   \/ frames'[1].pl.footer_prp = frames[1].pl.footer_prp]_vars

\* C26: a style:master-page with name M and page layout name L leaves a
\* PageLayout named L with master page name M, a stub if there was none and
\* the layout that was there otherwise, and what lies between the tags of
\* its style:header, style:header-left, style:footer or style:footer-left
\* child is attached to the slot of that child and to no other
C26_MasterPages ==
    [][nev' = nev + 1 =>
          /\ (pc = "master_styles" /\ last'.kind \in {"Start", "Empty"}
                 /\ last'.name = "style:master-page" /\ pc' # "error")
             => LET L == AttrOr(last'.attrs, "style:page-layout-name", "")
                    M == AttrOr(last'.attrs, "style:name", "")
                    before == IF L \in DOMAIN page_layouts THEN page_layouts[L]
                              ELSE [PageLayoutNew EXCEPT !.name = L]
                IN  /\ DOMAIN page_layouts' = DOMAIN page_layouts \cup {L}
                    /\ page_layouts'[L] = [before EXCEPT !.masterpage_name = Some(M)]
                    /\ \A n \in DOMAIN page_layouts \ {L} :
                          page_layouts'[n] = page_layouts[n]
          /\ (pc = "headerfooter" /\ last'.kind = "End"
                 /\ last'.name = EnteredOn(HeaderFooterTags, frames[1].set))
             => page_layouts' =
                    [page_layouts EXCEPT
                        ![frames[2].pagelayout_name][frames[1].set] = Some(frames[1].hf)]]_vars

----------------------------------------------------------------------------
(* Properties of the value-format parts under SpecFormat.                  *)

\* the parts of the value format being read, and the part that is pending
PartsOf(fs) == fs[1].value_style.parts
PendingOf(fs) == fs[1].value_style_part

\* C28: while a value format is read its part sequence only grows at its end,
\* a part child that is complete with its tag adds one part without content,
\* only CurrencySymbol and Text parts have content, and the content of the
\* pending part is the text node read between its open and close tags
C28_ValueFormatParts ==
    [][(pc = "value_format" /\ pc' = "value_format") =>
          /\ \/ PartsOf(frames') = PartsOf(frames)
             \/ /\ Len(PartsOf(frames')) = Len(PartsOf(frames)) + 1
                /\ SubSeq(PartsOf(frames'), 1, Len(PartsOf(frames))) = PartsOf(frames)
          /\ (nev' = nev + 1 /\ last'.kind \in {"Start", "Empty"}
                /\ last'.name \in DOMAIN FormatPartTags) =>
                /\ Len(PartsOf(frames')) = Len(PartsOf(frames)) + 1
                /\ PartsOf(frames')[Len(PartsOf(frames'))].content = None
          /\ \A i \in DOMAIN PartsOf(frames') :
                IsSome(PartsOf(frames')[i].content) =>
                    PartsOf(frames')[i].part_type \in {"CurrencySymbol", "Text"}
          /\ (Len(inp') = Len(inp) + 1 /\ IsSome(PendingOf(frames))) =>
                PendingOf(frames')[1].content = Some(inp'[Len(inp')])]_vars

\* the tags left open by the elements of a CompositVec, innermost first;
\* ok is FALSE if an End element closes a tag that is not the innermost open one
RECURSIVE Nesting(_, _)
Nesting(cv, open) ==
    IF cv = <<>> THEN [ok |-> TRUE, open |-> open]
    ELSE CASE cv[1].kind = "Start" -> Nesting(Tail(cv), <<cv[1].tag>> \o open)
           [] cv[1].kind = "End" ->
                 IF open # <<>> /\ open[1] = cv[1].tag
                 THEN Nesting(Tail(cv), Tail(open))
                 ELSE [ok |-> FALSE, open |-> open]
           [] OTHER -> Nesting(Tail(cv), open)

\* every Start element has its End element, properly nested
Balanced(cv) == Nesting(cv, <<>>).ok /\ Nesting(cv, <<>>).open = <<>>

\* C29: every start, empty, text or end event that read_composit reads and
\* stays on adds one element of its kind at the end of the CompositVec, with
\* the tag name and the attributes of the event; at the end tag of the tag it
\* was entered on, with every tag opened since closed, read_composit returns
\* the elements read since, which are balanced
C29_CompositContent ==
    [][(nev' = nev + 1 /\ pc = "composit") =>
          /\ (pc' = "composit" /\ last'.kind \in {"Start", "Empty"}) =>
                frames'[1].cv = Append(frames[1].cv,
                                       [kind |-> last'.kind, tag |-> last'.name,
                                        attrs |-> last'.attrs])
          /\ (pc' = "composit" /\ last'.kind = "Text") =>
                frames'[1].cv = Append(frames[1].cv,
                                       [kind |-> "Text", text |-> last'.text])
          /\ (pc' = "composit" /\ last'.kind = "End") =>
                frames'[1].cv = Append(frames[1].cv,
                                       [kind |-> "End", tag |-> last'.name])
          /\ (last'.kind = "End" /\ Balanced(frames[1].cv)
                 /\ last'.name = EnteredOn(RegionTags, frames[1].set)) =>
                /\ pc' = "headerfooter"
                /\ frames'[1].hf[frames[1].set] = frames[1].cv]_vars

----------------------------------------------------------------------------
(* Termination of read_content and read_styles under LiveCursor.           *)

\* read_content and read_styles have returned, with Ok or with an error
Returned == pc \in {"done", "error"}

\* C30: every step of a loop consumes exactly one event, once a loop inside
\* read_content has met the end of the input the loop around it meets it as
\* well and exits, and read_content and read_styles return in the end
C30_Termination ==
    /\ [][nev' = nev + 1]_vars
    /\ [][at_eof => (last'.kind = "Eof" /\ pc = "content" /\ pc' = "styles")]_vars
    /\ <>Returned

----------------------------------------------------------------------------
(* Properties of the header ranges, the row style and the counters of      *)
(* read_content under Spec.                                                *)

\* the inclusive range [from, to] ends just below the ucell cursor
EndsBelow(range, cursor) == range[2] + 1 = cursor /\ ULess(range[2], cursor)

\* C31: the open tag of table-header-rows notes the row cursor r0 and its
\* close tag, with the cursor at r1, sets the header rows of the sheet to
\* [r0, r1 - 1]; likewise table-header-columns with the column counter; no
\* other event sets a header range, so a sheet without them has none
C31_HeaderRanges ==
    [][(nev' = nev + 1 /\ pc = "content") =>
          /\ Took("content", "Start", "table:table-header-rows") => row_range_from' = row
          /\ Took("content", "Start", "table:table-header-columns") => col_range_from' = tcol
          /\ Took("content", "End", "table:table-header-rows") =>
                /\ IsSome(sheet'.header_rows)
                /\ Get(sheet'.header_rows)[1] = row_range_from
                /\ EndsBelow(Get(sheet'.header_rows), row)
          /\ Took("content", "End", "table:table-header-columns") =>
                /\ IsSome(sheet'.header_cols)
                /\ Get(sheet'.header_cols)[1] = col_range_from
                /\ EndsBelow(Get(sheet'.header_cols), tcol)
          /\ ~(last'.kind = "Start" /\ last'.name = "table:table-header-rows") =>
                row_range_from' = row_range_from
          /\ ~(last'.kind = "Start" /\ last'.name = "table:table-header-columns") =>
                col_range_from' = col_range_from
          /\ ~(last'.kind = "End" /\ last'.name = "table:table-header-rows") =>
                (sheet'.header_rows = sheet.header_rows \/ sheet' = SheetNew)
          /\ ~(last'.kind = "End" /\ last'.name = "table:table-header-columns") =>
                (sheet'.header_cols = sheet.header_cols \/ sheet' = SheetNew)]_vars

\* from <= to on the ucells of an inclusive range
WellFormedRange(range) == ~ULess(range[2], range[1])

\* C39: the close tag of table-header-rows and of table-header-columns
\* computes its range without an underflow of the cursor, and the range it
\* sets has from <= to
C39_HeaderRangesWellFormed ==
    [][/\ Took("content", "End", "table:table-header-rows") =>
             /\ Sub1Outcomes(row) = {"ok"}
             /\ pc' # "panic"
             /\ IsSome(sheet'.header_rows) /\ WellFormedRange(Get(sheet'.header_rows))
       /\ Took("content", "End", "table:table-header-columns") =>
             /\ Sub1Outcomes(tcol) = {"ok"}
             /\ pc' # "panic"
             /\ IsSome(sheet'.header_cols) /\ WellFormedRange(Get(sheet'.header_cols))]_vars

----------------------------------------------------------------------------
(* Further properties of TextVec::is_valid under SpecText.                 *)

\* the Ends that do not close the most recently unclosed Start of their name
BadEnds(vec) == {j \in 1..Len(vec) : vec[j].kind = "End" /\ ~ClosesItsStart(vec, j)}

\* the first of them
FirstBadEnd(vec) == CHOOSE j \in BadEnds(vec) : \A k \in BadEnds(vec) : j <= k

\* the most recently unclosed Start before the element at j
UnclosedStart(vec, j) ==
    CHOOSE i \in 1..(j - 1) :
        /\ vec[i].kind = "Start"
        /\ Depth(vec, i) > Depth(vec, j - 1) - 1
        /\ Depth(vec, i - 1) = Depth(vec, j - 1) - 1
        /\ \A k \in (i + 1)..(j - 1) : Depth(vec, k) >= Depth(vec, i)

\* C32: when is_valid returns false at an End that names another tag than
\* the most recently unclosed Start, open_tag holds the name of that Start
\* and close_tag the name of the End; when it returns true, or false at an
\* End that meets no open Start, both out-parameters are as they were
C32_MismatchReporting ==
    pc = "checked"
    => IF BadEnds(inp.vec) # {} /\ Depth(inp.vec, FirstBadEnd(inp.vec) - 1) >= 1
       THEN /\ ~out.res
            /\ out.open_tag
                  = inp.vec[UnclosedStart(inp.vec, FirstBadEnd(inp.vec))].tag
            /\ out.close_tag = inp.vec[FirstBadEnd(inp.vec)].tag
       ELSE /\ out.open_tag = inp.open_tag
            /\ out.close_tag = inp.close_tag

\* Start(b), Start(i), End(b) was checked with both Strings holding "u":
\* the mismatch of i and b is reported
C32_Witness ==
    /\ pc = "checked"
    /\ inp.vec = <<TextElem("Start", "b"), TextElem("Start", "i"), TextElem("End", "b")>>
    /\ inp.open_tag = "u"
    /\ out.open_tag = "i"
    /\ out.close_tag = "b"

\* C36: when is_valid returns true every Start of the TextVec has its End
\* later in the sequence, so that no tag is left open at its end
C36_ValidImpliesBalanced ==
    (pc = "checked" /\ out.res)
    => /\ Depth(inp.vec, Len(inp.vec)) = 0
       /\ \A i \in 1..Len(inp.vec) :
             inp.vec[i].kind = "Start"
             => \E j \in (i + 1)..Len(inp.vec) :
                   /\ inp.vec[j].kind = "End"
                   /\ inp.vec[j].tag = inp.vec[i].tag

\* the tag without its table:style-name attribute
Unstyled(ev) ==
    [ev EXCEPT !.attrs = [k \in DOMAIN ev.attrs \ {"table:style-name"} |-> ev.attrs[k]]]

\* C33: the open tag of a table-row leaves the Sheet and the WorkBook as they
\* are and does what the same tag without table:style-name does, but for the
\* pending row style; the close tag of a row stores nothing in the Sheet and
\* clears the pending row style; no other event writes the pending row style
C33_RowStyleDropped ==
    [][(nev' = nev + 1 /\ pc = "content") =>
          /\ Took("content", "Start", "table:table-row") =>
                /\ sheet' = sheet
                /\ book' = book
                /\ <<row, col, tcol>>' = <<row, col, tcol>>
                /\ read_table_row_attr(Unstyled(last'), None).ok = (pc' # "error")
                /\ pc' # "error" =>
                      row_repeat' = read_table_row_attr(Unstyled(last'), None).val.row_repeat
          /\ Took("content", "End", "table:table-row") =>
                /\ sheet' = sheet
                /\ book' = book
                /\ row_style' = None
          /\ last'.name # "table:table-row" => row_style' = row_style]_vars

\* the open tag of a row with the style ro1 and the repeat count 0 was read
C33_Witness ==
    /\ pc = "content"
    /\ last.kind = "Start"
    /\ last.name = "table:table-row"
    /\ row_style = Some("ro1")
    /\ row_repeat = 0

\* C34: the table:table-column that follows the open tag of a table, the
\* first column declaration of that table, is assigned the column index 0
C34_ColumnCounterPerSheet ==
    [][(Took("content", "Empty", "table:table-column")
           /\ last.kind = "Start" /\ last.name = "table:table")
          => tcol = 0]_vars

\* the elements that have a sub-parser of their own, by the loop that calls it
SubParserTags(at) ==
    CASE at = "styles_tag" -> {"style:style"} \cup DOMAIN ValueFormatTags
      [] at = "auto_styles" -> {"style:style", "style:page-layout"} \cup DOMAIN ValueFormatTags
      [] at = "master_styles" -> {"style:master-page"}
      [] at = "headerfooter" ->
            {"style:region-left", "style:region-center", "style:region-right"}
      [] OTHER -> {}

\* C35: a style:style, number:*-style, style:page-layout, style:master-page
\* or region tag in empty-tag form is finished with its tag: the loop that
\* read it reads the next event itself, no sub-parser is left running
C35_EmptyTagsConsumeNothing ==
    [][(nev' = nev + 1 /\ last'.kind = "Empty" /\ last'.name \in SubParserTags(pc)
           /\ pc' # "error")
          => (pc' = pc /\ Len(frames') = Len(frames))]_vars

\* C37: a cell element with the repeat count N (1 without the attribute, any
\* N >= 0) advances the column cursor by N, in empty-tag form and in open-tag
\* form, stored or not, so that the next cell element of the row starts at
\* the sum of the repeat counts before it
C37_ColumnPlacement ==
    [][/\ (TookEmptyCell /\ pc' = "content"
              /\ Declares(last', "table:number-columns-repeated"))
          => col' = col + Declared(last', "table:number-columns-repeated")
       /\ (TookClose /\ pc' = "content") => col' = col + cur.cell_repeat]_vars

\* C38: a table-row in empty-tag form with the repeat count N (1 without the
\* attribute) advances the row cursor by N, as a row with open and close tag
\* does
C38_EmptyRowCounts ==
    [][(Took("content", "Empty", "table:table-row")
           /\ Declares(last', "table:number-rows-repeated"))
          => row' = row + Declared(last', "table:number-rows-repeated")]_vars

----------------------------------------------------------------------------
(* Further properties of parse_value under SpecValue.                      *)

\* a time-duration with its hours, minutes and seconds written was decoded,
\* or the decoding panicked
DurationDecoded ==
    /\ pc \in {"decoded", "panic"}
    /\ inp.value_type = "TimeDuration"
    /\ IsSome(inp.cell_value)
    /\ inp.f.has = {"H", "M", "S"}

\* C40: for a time-duration with all its fields no 32-bit accumulator of the
\* scan overflows and the nanoseconds stay below 1,000,000,000; the whole
\* seconds of the result are those of the hours, minutes and seconds,
\* whatever the length of the fraction; a fraction of up to 9 digits gives
\* its digits scaled to nanoseconds
C40_DurationFraction ==
    DurationDecoded
    => /\ ~DurFields(Get(inp.cell_value)).ovf
       /\ pc = "decoded"
       /\ DurFields(Get(inp.cell_value)).nanos[1] = 0
       /\ out.ok
       /\ out.val.secs = W(inp.f.h * 3600 + inp.f.mi * 60 + inp.f.s)
       /\ DurFields(Get(inp.cell_value)).nanos_digits = 9 => out.val.nanos = inp.f.nanos

====
